---- MODULE Spec2Model ----
(***************************************************************************)
(* Verification model of the AS3 auto-bookkeeper.                          *)
(*                                                                         *)
(* Part I  : the QBO OAuth token manager (utils/token_manager.py): several *)
(*           workers (Lambda instances) calling get_access_token against   *)
(*           one shared DynamoDB item and one external token endpoint.     *)
(* Part II : the expense agent loop (process_expense/agent.py,             *)
(*           run_expense_agent): one run of the bounded tool-use loop      *)
(*           against an LLM service whose answers are free.                *)
(*                                                                         *)
(* Each part has its own specification over the shared variable tuple;     *)
(* the variables of the other part are left unchanged.                     *)
(***************************************************************************)
EXTENDS Integers, Sequences, FiniteSets, TLC

VARIABLES
    \* ---- Part I: token manager ----
    table,          \* the DynamoDB item under pk = "QBO_TOKEN": <<>> or <<item>>
    now,            \* the wall clock, int(time.time())
    issued,         \* token endpoint: number of token pairs issued so far
    presented,      \* token endpoint: refresh credential -> times presented
    writes,         \* history: the successful put_item calls
    tpc,            \* worker -> position inside get_access_token
    force_refresh,  \* worker -> argument of the current (possibly re-entered) call
    token_data,     \* worker -> item read at line 62: <<>> or <<item>>
    new_tokens,     \* worker -> tokens returned by the endpoint: <<>> or <<tokens>>
    ret,            \* worker -> outcome of the current invocation
    calls,          \* worker -> history of the current invocation
    invocations,    \* history: invocations of get_access_token started so far
    \* ---- Part II: agent loop ----
    apc,            \* position of run_expense_agent
    iteration,      \* loop variable of `for iteration in range(MAX_ITERATIONS)`
    result,         \* the ProcessingResult of the run
    llm,            \* history of the run: service calls and dispatches
    messages,       \* the conversation handed to the service (line 348)
    agent_expense_status, \* Supabase: status of the expense the run works on
    agent_qbo_purchases,  \* QuickBooks: Purchases created by the run
    \* ---- Part III: request handlers ----
    expenses,          \* Supabase zoho_expenses: id -> row
    bank_transactions, \* Supabase bank_transactions: id -> row
    idempotency_table, \* DynamoDB: key -> "absent", "stored" or "expired"
    hpc,               \* invocation -> position inside its handler
    event,             \* invocation -> the request body
    hresult,           \* invocation -> its ProcessingResult
    hh,                \* invocation -> history of the invocation
    matched_writes,    \* history: transaction -> writes of status matched
    faults,            \* history: store calls that raised so far
    \* ---- Part IV: stuck recovery ----
    rpc,               \* position of recover_stuck's lambda_handler
    stuck_expenses,    \* the rows get_stuck_expenses returned, not yet handled
    resets,            \* history: expense -> times recovery reset it to pending
    recovery_flagged,  \* history: expense -> recovery has flagged it
    \* ---- Part V: bank matcher and receipt comparison ----
    mpc,               \* position of the operation under study
    match_args,        \* input_args of match_bank_transaction
    bank_rows,         \* bank_transactions rows, in transaction_date order
    match_out,         \* what match_bank_transaction returned and recorded
    receipt_args,      \* arguments of _compare_receipt_data
    validation,        \* what _compare_receipt_data returned
    scores,            \* what matches_expense returned for each row
    state_args,        \* input_args of determine_state and what it finds
    state_out,         \* what determine_state returned
    \* ---- Part VI: posting with corrections ----
    ppc,               \* position of the posting routine under study
    body_corrections,  \* body["corrections"] of the human-approved request
    expense_row,       \* the zoho_expenses row of the expense
    expense_obj,       \* the Expense object process_human_approved holds
    presult,           \* the ProcessingResult of the run
    qbo_purchase,      \* the arguments create_purchase was called with
    invoked            \* history: the client calls made, in order

tokenVars == <<table, now, issued, presented, writes, tpc, force_refresh,
               token_data, new_tokens, ret, calls, invocations>>
agentVars == <<apc, iteration, result, llm, messages, agent_expense_status,
               agent_qbo_purchases>>
handlerVars == <<expenses, bank_transactions, idempotency_table, hpc, event,
                 hresult, hh, matched_writes, faults>>
recoveryVars == <<rpc, stuck_expenses, resets, recovery_flagged>>
toolVars == <<mpc, match_args, bank_rows, match_out, receipt_args, validation, scores,
              state_args, state_out>>
postVars == <<ppc, body_corrections, expense_row, expense_obj, presult, qbo_purchase, invoked>>
vars == <<table, now, issued, presented, writes, tpc, force_refresh,
          token_data, new_tokens, ret, calls, invocations,
          apc, iteration, result, llm, messages, agent_expense_status,
          agent_qbo_purchases,
          expenses, bank_transactions, idempotency_table, hpc, event,
          hresult, hh, matched_writes, faults,
          rpc, stuck_expenses, resets, recovery_flagged,
          mpc, match_args, bank_rows, match_out, receipt_args, validation, scores,
          state_args, state_out,
          ppc, body_corrections, expense_row, expense_obj, presult, qbo_purchase,
          invoked>>

(***************************************************************************)
(* Bounds of the model.                                                    *)
(***************************************************************************)
MaxEndpointCalls == 4   \* requests the token endpoint receives in one behaviour
MaxTicks == 1           \* clock ticks in one behaviour
MaxInvocations == 4     \* get_access_token invocations in one behaviour
MaxVariedCalls == 2     \* dispatched operations of a run that the service picks freely
MaxRetryCount == 1      \* largest retry_count a request carries
MaxFaults == 2          \* calls to Supabase or DynamoDB that raise in one behaviour

Workers == {"w1", "w2", "w3"}

(***************************************************************************)
(* Part I.  Token manager                                                  *)
(***************************************************************************)
TOKEN_BUFFER_SECONDS == 300
REFRESH_TOKEN_LIFETIME == 101 * 24 * 60 * 60

\* One clock tick is one buffer length, so that both sides of the
\* comparison at line 72 and its boundary are reached.
TickStep == TOKEN_BUFFER_SECONDS
\* The "expires_in" the endpoint answers with (two buffer lengths).
ExpiresIn == 2 * TOKEN_BUFFER_SECONDS

\* Optional values: None is <<>>, a present value x is <<x>>.
None == <<>>
Some(x) == <<x>>
IsNone(o) == Len(o) = 0
Val(o) == o[1]

\* The long-lived refresh credential in Secrets Manager (QBO_REFRESH_TOKEN).
\* Credentials issued by the endpoint are numbered 1, 2, ... in issue order.
SeedRefreshToken == 0

NoReturn == [kind |-> "none", token |-> 0]
Returned(tok) == [kind |-> "token", token |-> tok]
TokenRefreshError == [kind |-> "TokenRefreshError", token |-> 0]

\* History of one invocation of get_access_token (re-entries included):
\*   reads      executions of line 62
\*   refreshes  entries of _refresh_token
\*   endpoint   requests sent to the token endpoint
\*   rejected   conditional writes rejected (ConditionalCheckFailedException)
\*   staleReads checks after a rejection that found the re-read item inside
\*              the expiry buffer
\*   endpointAfterReject  endpoint requests sent after the first rejection
NoCalls == [reads |-> 0, refreshes |-> 0, endpoint |-> 0, rejected |-> 0,
            staleReads |-> 0, endpointAfterReject |-> 0]

TokenInit ==
    /\ table = None
    /\ now = 0
    /\ issued = 0
    /\ presented = [r \in 0..MaxEndpointCalls |-> 0]
    /\ writes = {}
    /\ tpc = [w \in Workers |-> "idle"]
    /\ force_refresh = [w \in Workers |-> FALSE]
    /\ token_data = [w \in Workers |-> None]
    /\ new_tokens = [w \in Workers |-> None]
    /\ ret = [w \in Workers |-> NoReturn]
    /\ calls = [w \in Workers |-> NoCalls]
    /\ invocations = 0

\* ---------------------------------------------------------------------
\* The external token endpoint (Intuit OAuth).  A credential presented for
\* the first time is honoured.  A credential that was already presented is
\* either honoured again (grace window) or refused with a non-200 answer
\* (strict single use): both outcomes are possible, the caller cannot tell
\* which one it will get.
\* ---------------------------------------------------------------------
EndpointRequests == LET S[r \in -1..MaxEndpointCalls] ==
                            IF r < 0 THEN 0 ELSE presented[r] + S[r - 1]
                    IN  S[MaxEndpointCalls]

EndpointMayAnswer(refresh_token, ok) ==
    /\ EndpointRequests < MaxEndpointCalls
    /\ (presented[refresh_token] = 0 => ok)

\* lines 190-196: the dictionary built from a 200 answer
IssuedTokens(n) == [access_token |-> n, refresh_token |-> n, expires_in |-> ExpiresIn]

\* _call_qbo_token_endpoint (lines 151-196) by worker w;
\* a 200 answer continues at `to`, any other raises TokenRefreshError (188),
\* which no caller catches.
CallQboTokenEndpoint(w, refresh_token, to) ==
    \E ok \in BOOLEAN :
        /\ EndpointMayAnswer(refresh_token, ok)
        /\ presented' = [presented EXCEPT ![refresh_token] = @ + 1]
        /\ calls' = [calls EXCEPT ![w].endpoint = @ + 1,
                                  ![w].endpointAfterReject =
                                      IF calls[w].rejected > 0 THEN @ + 1 ELSE @]
        /\ IF ok
           THEN /\ issued' = issued + 1
                /\ new_tokens' = [new_tokens EXCEPT ![w] = Some(IssuedTokens(issued + 1))]
                /\ tpc' = [tpc EXCEPT ![w] = to]
                /\ ret' = ret
           ELSE /\ issued' = issued
                /\ new_tokens' = new_tokens
                /\ tpc' = [tpc EXCEPT ![w] = "done"]
                /\ ret' = [ret EXCEPT ![w] = TokenRefreshError]

\* _store_tokens, lines 206-220: the item written
StoredItem(tokens, version, current_time) ==
    [access_token |-> tokens.access_token,
     refresh_token |-> tokens.refresh_token,
     access_token_expires_at |-> current_time + tokens.expires_in,
     refresh_token_expires_at |-> current_time + REFRESH_TOKEN_LIFETIME,
     version |-> version + 1]

\* _store_tokens, lines 222-232: whether put_item goes through.  With
\* version = 0 the put carries no condition; otherwise
\* "attribute_not_exists(pk) OR version = :v".
PutSucceeds(version) ==
    IF version = 0 THEN TRUE
    ELSE IF IsNone(table) THEN TRUE
    ELSE Val(table).version = version

\* What the history records for a successful put.
WriteEntry(w, version, item) ==
    [conditional |-> version # 0,
     expected |-> version,
     before |-> IF IsNone(table) THEN 0 ELSE Val(table).version,
     version |-> item.version,
     read |-> IF IsNone(token_data[w]) THEN 0 ELSE Val(token_data[w]).access_token,
     access_token |-> item.access_token]

\* get_access_token is called (line 46)
GetAccessToken(w, force) ==
    /\ tpc[w] = "idle"
    /\ invocations < MaxInvocations
    /\ invocations' = invocations + 1
    /\ tpc' = [tpc EXCEPT ![w] = "read"]
    /\ force_refresh' = [force_refresh EXCEPT ![w] = force]
    /\ UNCHANGED <<table, now, issued, presented, writes, ret, calls,
                   token_data, new_tokens>>

\* lines 62-66: read the item; absent -> _initialize_tokens
GetTokenFromDynamodb(w) ==
    /\ tpc[w] = "read"
    /\ token_data' = [token_data EXCEPT ![w] = table]
    /\ calls' = [calls EXCEPT ![w].reads = @ + 1]
    /\ tpc' = [tpc EXCEPT ![w] = IF IsNone(table) THEN "init_endpoint" ELSE "check"]
    /\ UNCHANGED <<table, now, issued, presented, writes, force_refresh, new_tokens,
                   ret, invocations>>

\* TokenIsValid with the buffer taken off the expiry as well as added to the clock
TokenIsValid_BufferTwice(force, expires_at, current_time) ==
    ~force /\ expires_at - TOKEN_BUFFER_SECONDS > current_time + TOKEN_BUFFER_SECONDS

\* line 72: the token read is still usable
TokenIsValid(force, expires_at, current_time) ==
    ~force /\ expires_at > current_time + TOKEN_BUFFER_SECONDS

\* lines 69-79: return the token read, or enter _refresh_token
CheckExpiry(w) ==
    /\ tpc[w] = "check"
    /\ LET item == Val(token_data[w])
           stale == ~(item.access_token_expires_at > now + TOKEN_BUFFER_SECONDS)
       IN  IF TokenIsValid(force_refresh[w], item.access_token_expires_at, now)
           THEN /\ ret' = [ret EXCEPT ![w] = Returned(item.access_token)]
                /\ tpc' = [tpc EXCEPT ![w] = "done"]
                /\ calls' = calls
           ELSE /\ ret' = ret
                /\ tpc' = [tpc EXCEPT ![w] = "refresh_endpoint"]
                /\ calls' = [calls EXCEPT ![w].refreshes = @ + 1,
                                          ![w].staleReads =
                                              IF calls[w].rejected > 0 /\ stale
                                              THEN @ + 1 ELSE @]
    /\ UNCHANGED <<table, now, issued, presented, writes, force_refresh,
                   token_data, new_tokens, invocations>>

\* _initialize_tokens, lines 98-103: spend the seed credential
InitializeCallEndpoint(w) ==
    /\ tpc[w] = "init_endpoint"
    /\ CallQboTokenEndpoint(w, SeedRefreshToken, "init_store")
    /\ UNCHANGED <<table, now, writes, force_refresh, token_data, invocations>>

\* _initialize_tokens, lines 106-108: _store_tokens(new_tokens, version=0)
InitializeStore(w) ==
    /\ tpc[w] = "init_store"
    /\ LET item == StoredItem(Val(new_tokens[w]), 0, now)
       IN  /\ PutSucceeds(0)
           /\ table' = Some(item)
           /\ writes' = writes \cup {WriteEntry(w, 0, item)}
           /\ ret' = [ret EXCEPT ![w] = Returned(item.access_token)]
    /\ tpc' = [tpc EXCEPT ![w] = "done"]
    /\ UNCHANGED <<now, issued, presented, force_refresh, token_data, new_tokens,
                   calls, invocations>>

\* _refresh_token, lines 123-131: spend the credential that was read
RefreshCallEndpoint(w) ==
    /\ tpc[w] = "refresh_endpoint"
    /\ CallQboTokenEndpoint(w, Val(token_data[w]).refresh_token, "refresh_store")
    /\ UNCHANGED <<table, now, writes, force_refresh, token_data, invocations>>

\* RetryForceRefresh, were the re-entered call made with force_refresh=True
RetryForceRefresh_Forced == TRUE
\* line 146: the argument of the re-entered get_access_token
RetryForceRefresh == FALSE

\* RetryPosition, were a rejected write answered by calling the endpoint again
RetryPosition_Endpoint == "refresh_endpoint"
\* lines 139-146: where a rejected conditional write continues
RetryPosition == "read"

\* _refresh_token, lines 134-146: the conditional write and its outcome
RefreshStore(w) ==
    /\ tpc[w] = "refresh_store"
    /\ LET current_version == Val(token_data[w]).version
           item == StoredItem(Val(new_tokens[w]), current_version, now)
       IN  IF PutSucceeds(current_version)
           THEN /\ table' = Some(item)
                /\ writes' = writes \cup {WriteEntry(w, current_version, item)}
                /\ ret' = [ret EXCEPT ![w] = Returned(item.access_token)]
                /\ tpc' = [tpc EXCEPT ![w] = "done"]
                /\ UNCHANGED <<force_refresh, calls>>
           ELSE \* ConditionalCheckFailedException: sleep, then re-enter
                /\ calls' = [calls EXCEPT ![w].rejected = @ + 1]
                /\ force_refresh' = [force_refresh EXCEPT ![w] = RetryForceRefresh]
                /\ tpc' = [tpc EXCEPT ![w] = RetryPosition]
                /\ UNCHANGED <<table, writes, ret>>
    /\ UNCHANGED <<now, issued, presented, token_data, new_tokens, invocations>>

\* the caller takes the result and the frame is gone; the worker may call again
TokenReturn(w) ==
    /\ tpc[w] = "done"
    /\ tpc' = [tpc EXCEPT ![w] = "idle"]
    /\ force_refresh' = [force_refresh EXCEPT ![w] = FALSE]
    /\ ret' = [ret EXCEPT ![w] = NoReturn]
    /\ calls' = [calls EXCEPT ![w] = NoCalls]
    /\ token_data' = [token_data EXCEPT ![w] = None]
    /\ new_tokens' = [new_tokens EXCEPT ![w] = None]
    /\ UNCHANGED <<table, now, issued, presented, writes, invocations>>

\* time passes
Tick ==
    /\ now + TickStep <= MaxTicks * TickStep
    /\ now' = now + TickStep
    /\ UNCHANGED <<table, issued, presented, writes, tpc, force_refresh,
                   token_data, new_tokens, ret, calls, invocations>>

\* Part I under a set W of workers that call get_access_token.
TokenNextOf(W) ==
    \/ \E w \in W, force \in BOOLEAN : GetAccessToken(w, force) /\ UNCHANGED <<agentVars, handlerVars, recoveryVars, toolVars, postVars>>
    \/ \E w \in W : GetTokenFromDynamodb(w) /\ UNCHANGED <<agentVars, handlerVars, recoveryVars, toolVars, postVars>>
    \/ \E w \in W : CheckExpiry(w) /\ UNCHANGED <<agentVars, handlerVars, recoveryVars, toolVars, postVars>>
    \/ \E w \in W : InitializeCallEndpoint(w) /\ UNCHANGED <<agentVars, handlerVars, recoveryVars, toolVars, postVars>>
    \/ \E w \in W : InitializeStore(w) /\ UNCHANGED <<agentVars, handlerVars, recoveryVars, toolVars, postVars>>
    \/ \E w \in W : RefreshCallEndpoint(w) /\ UNCHANGED <<agentVars, handlerVars, recoveryVars, toolVars, postVars>>
    \/ \E w \in W : RefreshStore(w) /\ UNCHANGED <<agentVars, handlerVars, recoveryVars, toolVars, postVars>>
    \/ \E w \in W : TokenReturn(w) /\ UNCHANGED <<agentVars, handlerVars, recoveryVars, toolVars, postVars>>
    \/ Tick /\ UNCHANGED <<agentVars, handlerVars, recoveryVars, toolVars, postVars>>

(***************************************************************************)
(* Part II.  The agent loop (agent.py, run_expense_agent)                  *)
(***************************************************************************)
MAX_ITERATIONS == 15

\* ProcessingResult(), processing_result.py lines 56-105, the fields the
\* loop or a dispatched operation reads or writes.  qbo_purchase_id and
\* bank_transaction_id: 0 is None.
NewProcessingResult ==
    [success |-> FALSE,
     decision |-> "needs_review",
     confidence |-> 0,
     bank_transaction_id |-> 0,
     qbo_purchase_id |-> 0,
     flag_reason |-> "None",
     error_message |-> "None",
     iteration_count |-> 0,
     corrections |-> <<>>,
     tool_calls |-> <<>>]

\* The closing text, reduced to the substrings _parse_final_decision tests.
FinalTexts == [posted : BOOLEAN, flag : BOOLEAN, review : BOOLEAN, error : BOOLEAN]

\* History of a run: service calls made, answers by kind, operations
\* dispatched, what had been done when the service call failed, and for a
\* normal completion the call it came with, its text, the purchase id the
\* result held then and the decision the parse left.
NoLlm == [calls |-> 0, toolUseAnswers |-> 0, dispatched |-> 0,
          apiErrorAt |-> 0, dispatchedAtApiError |-> 0,
          endTurnAt |-> 0,
          finalText |-> [posted |-> FALSE, flag |-> FALSE, review |-> FALSE,
                         error |-> FALSE],
          purchaseAtEndTurn |-> 0,
          parsedDecision |-> "none"]

AgentInit ==
    /\ apc = "idle"
    /\ iteration = 0
    /\ result = NewProcessingResult
    /\ llm = NoLlm
    /\ messages = <<>>
    /\ agent_expense_status = "processing"
    /\ agent_qbo_purchases = 0

\* execute_tool's registry, agent.py lines 470-481
ToolsMap == {"validate_receipt", "match_bank_transaction", "determine_state",
             "lookup_qbo_expense_account", "lookup_qbo_vendor", "create_qbo_vendor",
             "create_qbo_purchase", "upload_receipt_to_qbo", "create_monday_subitem",
             "flag_for_review"}

\* The operation requests the service may send: a name, how the handler
\* ends ("ok": a success envelope, "corrected": a success envelope after the
\* handler recorded a Correction, "envelope": a {success: False, error}
\* envelope, "raise": an exception), and the confidence argument.
ToolRequests ==
    { [name |-> "validate_receipt", outcome |-> "ok", confidence |-> 0],
      [name |-> "validate_receipt", outcome |-> "raise", confidence |-> 0],
      [name |-> "match_bank_transaction", outcome |-> "corrected", confidence |-> 0],
      [name |-> "lookup_qbo_expense_account", outcome |-> "ok", confidence |-> 0],
      [name |-> "create_qbo_purchase", outcome |-> "ok", confidence |-> 0],
      [name |-> "create_qbo_purchase", outcome |-> "envelope", confidence |-> 0],
      [name |-> "flag_for_review", outcome |-> "ok", confidence |-> 60],
      [name |-> "no_such_tool", outcome |-> "raise", confidence |-> 0] }

\* Once MaxVariedCalls operations were dispatched in a run, the service only
\* asks for this one, one per answer.
RoutineRequest == [name |-> "validate_receipt", outcome |-> "ok", confidence |-> 0]

\* A content block of an answer: a tool_use block carries the request and
\* the id the service gave it; a text block carries neither.
ToolUse(req, id) == [type |-> "tool_use", id |-> id, name |-> req.name,
                     outcome |-> req.outcome, confidence |-> req.confidence]
TextBlock == [type |-> "text", id |-> 0, name |-> "text", outcome |-> "ok",
              confidence |-> 0]

\* The requests the service puts two to an answer.
PairRequests ==
    { [name |-> "validate_receipt", outcome |-> "raise", confidence |-> 0],
      [name |-> "flag_for_review", outcome |-> "ok", confidence |-> 60],
      [name |-> "no_such_tool", outcome |-> "raise", confidence |-> 0] }

\* The content of a tool_use answer: its blocks, in order.  Text may come
\* before a request, and the service numbers the requests of one answer as
\* it likes (both shown on the routine request).
ToolUseAnswers(dispatched) ==
    IF dispatched >= MaxVariedCalls
    THEN { <<ToolUse(RoutineRequest, 1)>> }
    ELSE { <<ToolUse(r, 1)>> : r \in ToolRequests }
         \cup { <<TextBlock, ToolUse(RoutineRequest, 1)>> }
         \cup (IF dispatched + 2 <= MaxVariedCalls
               THEN { <<ToolUse(r1, 1), ToolUse(r2, 2)>> :
                          r1 \in PairRequests, r2 \in PairRequests }
                    \cup { <<ToolUse(RoutineRequest, 2), ToolUse(RoutineRequest, 1)>> }
               ELSE {})

\* line 384: the tool_use blocks of a content, in order
RECURSIVE ToolUseBlocks(_)
ToolUseBlocks(content) ==
    IF content = <<>> THEN <<>>
    ELSE IF Head(content).type = "tool_use"
         THEN <<Head(content)>> \o ToolUseBlocks(Tail(content))
         ELSE ToolUseBlocks(Tail(content))

\* ToolSuccess, were every dispatch recorded as a success
ToolSuccess_Always(req) == TRUE
\* execute_tool (lines 468-486) and the try/except around it (393-401):
\* tool_success, whether the call came back without raising.
ToolSuccess(req) == req.name \in ToolsMap /\ req.outcome # "raise"

\* str(e) of the exception a dispatch raised (line 484, or the handler's own)
ErrorText(req) ==
    IF req.name \notin ToolsMap THEN "Unknown tool" ELSE "handler raised"

\* tool_output (lines 394, 399): the handler's dictionary, reduced to its
\* "success" and "error" entries, or {"error": str(e)} when the call raised.
ToolOutput(req) ==
    IF ~ToolSuccess(req) THEN [success |-> "absent", error |-> ErrorText(req)]
    ELSE IF req.outcome = "envelope" THEN [success |-> "false", error |-> "handler error"]
    ELSE [success |-> "true", error |-> "absent"]

\* tool_error (lines 396, 401)
ToolError(req) == IF ToolSuccess(req) THEN "None" ELSE ErrorText(req)

\* add_tool_call, were the new entry to replace the list
AddToolCall_Overwrite(tool_calls, entry) == <<entry>>
\* ProcessingResult.add_tool_call, processing_result.py lines 112-130
AddToolCall(tool_calls, entry) == Append(tool_calls, entry)

\* ProcessingResult.add_correction, processing_result.py lines 132-149
AddCorrection(corrections, entry) == Append(corrections, entry)

\* ApplyTool, were an unknown name handed to some handler
ApplyTool_UnknownReachesHandler(res, req) ==
    IF req.name \notin ToolsMap THEN [res EXCEPT !.flag_reason = "review_reason"] ELSE res
\* The handler's effect on the result: match_bank_transaction
\* (bank_matching.py 121-133), create_qbo_purchase (qbo_operations.py
\* 235-236), flag_for_review (review_flagging.py 39-48).  An unknown name
\* reaches no handler (agent.py 483-484).
ApplyTool(res, req) ==
    IF req.name \notin ToolsMap \/ req.outcome \notin {"ok", "corrected"} THEN res
    ELSE IF req.name = "match_bank_transaction"
         THEN [res EXCEPT !.bank_transaction_id = 1,
                          !.corrections =
                              AddCorrection(@, [field_name |-> "amount",
                                                seq |-> Len(res.corrections) + 1])]
    ELSE IF req.name = "create_qbo_purchase"
         THEN [res EXCEPT !.qbo_purchase_id = 1]
    ELSE IF req.name = "flag_for_review"
         THEN [res EXCEPT !.success = FALSE, !.decision = "needs_review",
                          !.confidence = req.confidence, !.flag_reason = "review_reason"]
    ELSE res

\* The handler's effect on the expense row in Supabase: flag_for_review
\* (review_flagging.py 56-62) sets it to flagged.
ApplyToolToExpense(status, req) ==
    IF req.name = "flag_for_review" /\ req.outcome = "ok" THEN "flagged" ELSE status

\* The handler's effect on the ledger: create_qbo_purchase
\* (qbo_operations.py 222-232) creates one Purchase.
ApplyToolToLedger(purchases, req) ==
    IF req.name = "create_qbo_purchase" /\ req.outcome = "ok"
    THEN purchases + 1 ELSE purchases

\* lines 393-413: one block dispatched and recorded
DispatchBlock(res, req) ==
    LET after == ApplyTool(res, req)
    IN  [after EXCEPT !.tool_calls =
            AddToolCall(@, [tool_name |-> req.name,
                            output |-> ToolOutput(req),
                            success |-> ToolSuccess(req),
                            error_message |-> ToolError(req)])]

\* lines 383-420: all tool_use blocks of an answer, in order
RECURSIVE DispatchAll(_, _)
DispatchAll(res, blocks) ==
    IF blocks = <<>> THEN res
    ELSE DispatchAll(DispatchBlock(res, Head(blocks)), Tail(blocks))

RECURSIVE DispatchAllToExpense(_, _)
DispatchAllToExpense(status, blocks) ==
    IF blocks = <<>> THEN status
    ELSE DispatchAllToExpense(ApplyToolToExpense(status, Head(blocks)), Tail(blocks))

RECURSIVE DispatchAllToLedger(_, _)
DispatchAllToLedger(purchases, blocks) ==
    IF blocks = <<>> THEN purchases
    ELSE DispatchAllToLedger(ApplyToolToLedger(purchases, Head(blocks)), Tail(blocks))

\* line 419: json.dumps(tool_output), the text handed back to the service
JsonDumps(output) == [json |-> output]

\* ToolResultBlock, were the result not tied to its request
ToolResultBlock_NoId(block) ==
    [type |-> "tool_result", tool_use_id |-> 0,
     content |-> JsonDumps(ToolOutput(block))]
\* lines 416-420: the tool_result appended for a dispatched block
ToolResultBlock(block) ==
    [type |-> "tool_result", tool_use_id |-> block.id,
     content |-> JsonDumps(ToolOutput(block))]

\* tool_results after the loop of lines 383-420
ToolResults(blocks) == [i \in 1..Len(blocks) |-> ToolResultBlock(blocks[i])]

\* _parse_final_decision, lines 497-529
ParseFinalDecision(res, text) ==
    IF text.posted
    THEN [res EXCEPT !.success = TRUE, !.decision = "auto_post",
                     !.confidence = IF res.confidence = 0 THEN 95 ELSE @]
    ELSE IF text.flag /\ text.review
    THEN [res EXCEPT !.success = FALSE, !.decision = "needs_review"]
    ELSE IF text.error
    THEN [res EXCEPT !.success = FALSE, !.decision = "flagged"]
    ELSE IF res.qbo_purchase_id # 0
    THEN [res EXCEPT !.success = TRUE, !.decision = "auto_post",
                     !.confidence = IF res.confidence = 0 THEN 90 ELSE @]
    ELSE [res EXCEPT !.success = FALSE, !.decision = "needs_review"]

\* LoopContinues with the bound off by one
LoopContinues_OffByOne(i) == i <= MAX_ITERATIONS
\* line 352: the loop runs another iteration
LoopContinues(i) == i < MAX_ITERATIONS

\* run_expense_agent is called: lines 329-350
RunExpenseAgent ==
    /\ apc = "idle"
    /\ apc' = "loop"
    /\ iteration' = 0
    /\ result' = NewProcessingResult
    /\ llm' = NoLlm
    /\ messages' = <<[role |-> "user", content |-> <<TextBlock>>]>>
    /\ UNCHANGED <<agent_expense_status, agent_qbo_purchases>>
    /\ UNCHANGED <<tokenVars, handlerVars, recoveryVars, toolVars, postVars>>

\* line 353, and the service call of lines 359-365
ServiceCalled(res) == [res EXCEPT !.iteration_count = iteration + 1]

\* lines 372-377: stop_reason = "end_turn"
LlmEndTurn(text) ==
    /\ apc = "loop"
    /\ LoopContinues(iteration)
    /\ result' = ParseFinalDecision(ServiceCalled(result), text)
    /\ llm' = [llm EXCEPT !.calls = @ + 1, !.endTurnAt = llm.calls + 1,
                          !.finalText = text,
                          !.purchaseAtEndTurn = result.qbo_purchase_id,
                          !.parsedDecision = result'.decision]
    /\ apc' = "after_loop"
    /\ UNCHANGED <<iteration, messages, agent_expense_status, agent_qbo_purchases>>
    /\ UNCHANGED <<tokenVars, handlerVars, recoveryVars, toolVars, postVars>>

\* lines 380-424: stop_reason = "tool_use"; the loop goes on
LlmToolUse(content) ==
    /\ apc = "loop"
    /\ LoopContinues(iteration)
    /\ LET blocks == ToolUseBlocks(content)
       IN  /\ result' = DispatchAll(ServiceCalled(result), blocks)
           /\ agent_expense_status' = DispatchAllToExpense(agent_expense_status, blocks)
           /\ agent_qbo_purchases' = DispatchAllToLedger(agent_qbo_purchases, blocks)
           /\ messages' = messages \o <<[role |-> "assistant", content |-> content],
                                        [role |-> "user", content |-> ToolResults(blocks)]>>
           /\ llm' = [llm EXCEPT !.calls = @ + 1, !.toolUseAnswers = @ + 1,
                                 !.dispatched = @ + Len(blocks)]
    /\ iteration' = iteration + 1
    /\ apc' = IF LoopContinues(iteration + 1) THEN "loop" ELSE "after_loop"
    /\ UNCHANGED <<tokenVars, handlerVars, recoveryVars, toolVars, postVars>>

\* lines 426-430: any other stop_reason
LlmUnexpectedStop ==
    /\ apc = "loop"
    /\ LoopContinues(iteration)
    /\ result' = [ServiceCalled(result) EXCEPT !.error_message = "unexpected_stop"]
    /\ llm' = [llm EXCEPT !.calls = @ + 1]
    /\ apc' = "after_loop"
    /\ UNCHANGED <<iteration, messages, agent_expense_status, agent_qbo_purchases>>
    /\ UNCHANGED <<tokenVars, handlerVars, recoveryVars, toolVars, postVars>>

\* lines 432-437: the service call raises anthropic.APIError
LlmApiError ==
    /\ apc = "loop"
    /\ LoopContinues(iteration)
    /\ result' = [ServiceCalled(result) EXCEPT !.error_message = "api_error",
                                               !.decision = "flagged",
                                               !.flag_reason = "api_error"]
    /\ llm' = [llm EXCEPT !.calls = @ + 1, !.apiErrorAt = llm.calls + 1,
                          !.dispatchedAtApiError = llm.dispatched]
    /\ apc' = "after_loop"
    /\ UNCHANGED <<iteration, messages, agent_expense_status, agent_qbo_purchases>>
    /\ UNCHANGED <<tokenVars, handlerVars, recoveryVars, toolVars, postVars>>

\* MaxIterationsReached with a strict comparison
MaxIterationsReached_Strict(res) == res.iteration_count > MAX_ITERATIONS /\ ~res.success
\* line 440: the test after the loop
MaxIterationsReached(res) == res.iteration_count >= MAX_ITERATIONS /\ ~res.success

\* lines 439-447: after the loop, then return
AfterLoop ==
    /\ apc = "after_loop"
    /\ result' = IF MaxIterationsReached(result)
                 THEN [result EXCEPT !.decision = "flagged",
                                     !.flag_reason = "max_iterations_exceeded",
                                     !.error_message = "max_iterations"]
                 ELSE result
    /\ apc' = "returned"
    /\ UNCHANGED <<iteration, llm, messages, agent_expense_status, agent_qbo_purchases>>
    /\ UNCHANGED <<tokenVars, handlerVars, recoveryVars, toolVars, postVars>>

AgentNext ==
    \/ RunExpenseAgent
    \/ \E text \in FinalTexts : LlmEndTurn(text)
    \/ \E content \in ToolUseAnswers(llm.dispatched) : LlmToolUse(content)
    \/ LlmUnexpectedStop
    \/ LlmApiError
    \/ AfterLoop

(***************************************************************************)
(* Part III.  The request handlers (process_expense/handler.py and         *)
(*            human_approved/handler.py) over the shared Supabase tables   *)
(*            and the DynamoDB idempotency table.  Several invocations run *)
(*            side by side; every call to a store is one step.  The agent  *)
(*            run inside process_expense is taken by its effects on the    *)
(*            tables and on the result (Part II has the loop itself).      *)
(***************************************************************************)
Expenses == {"e1", "e2"}      \* "e1" came with its receipt, "e2" without
BankTxns == {"b1"}
Requests == {"r1", "r2"}      \* invocations of process_expense's lambda_handler
Humans == {"h1"}              \* invocations of human_approved's lambda_handler
Callers == Requests \cup Humans
\* The invocations are interchangeable: "r2" names the one that arrives second.
Earlier(r) == IF r = "r2" THEN {"r1"} ELSE {}
RetryCounts == 0..MaxRetryCount

\* the statuses after which the standard path is done with an expense
TerminalStatuses == {"posted", "flagged", "error", "duplicate"}

\* GenerateIdempotencyKey, were the retry count left out of the digest
GenerateIdempotencyKey_ExpenseOnly(expense_id, retry_count) == <<expense_id, 0>>
\* _generate_idempotency_key, handler.py lines 272-275: a digest of
\* "<expense_id>:<retry_count>", one key per pair
GenerateIdempotencyKey(expense_id, retry_count) == <<expense_id, retry_count>>
IdempotencyKeys == { GenerateIdempotencyKey(e, rc) : e \in Expenses, rc \in RetryCounts }

NoEvent == [expense_id |-> "None", retry_count |-> 0, bank_transaction_id |-> "None"]

\* ProcessingResult(expense_id=...), handler.py line 102: the fields the
\* handler reads or writes
NewHandlerResult ==
    [success |-> FALSE, decision |-> "needs_review", confidence |-> 0,
     bank_transaction_id |-> "None", qbo_purchase_id |-> 0, flag_reason |-> "None"]

\* History of one invocation, kept until it returns:
\*   afterRecord   the idempotency record of its pair had been written
\*                 before it arrived
\*   setProcessing it wrote status processing
\*   run           how run_expense_agent ended: "success", "failure" (it
\*                 returned success = false) or "raised"
\*   lastStatus    the last status it wrote to its expense
\*   failedCalls   a call it made to Supabase raised
\*   response      what it returned
NoHistory == [afterRecord |-> FALSE, setProcessing |-> FALSE, run |-> "none",
              lastStatus |-> "none", failedCalls |-> FALSE, response |-> "none"]

\* the tables and the invocations at the start; with_receipt are the
\* expenses whose receipt was stored
StoreInit(with_receipt) ==
    /\ expenses = [e \in Expenses |->
                      [status |-> "pending", bank_transaction_id |-> "None",
                       receipt_storage_path |-> (e \in with_receipt),
                       processing_attempts |-> 0]]
    /\ bank_transactions = [b \in BankTxns |->
                               [status |-> "unmatched", matched_expense_id |-> "None"]]
    /\ idempotency_table = [k \in IdempotencyKeys |-> "absent"]
    /\ hpc = [c \in Callers |-> "idle"]
    /\ event = [c \in Callers |-> NoEvent]
    /\ hresult = [c \in Callers |-> NewHandlerResult]
    /\ hh = [c \in Callers |-> NoHistory]
    /\ matched_writes = [b \in BankTxns |-> 0]
    /\ faults = 0
\* one expense with a receipt, one without
HandlerInit == StoreInit({"e1"})

\* A call to Supabase or DynamoDB either goes through or raises; at most
\* MaxFaults calls raise in one behaviour.
MayAnswer(ok) == ok \/ faults < MaxFaults
Faulted(ok) == IF ok THEN faults ELSE faults + 1
Failed(c) == [hh EXCEPT ![c].failedCalls = TRUE]

\* SupabaseClient.update_expense with a status, supabase_client.py 118-126
WithStatus(c, status) == [expenses EXCEPT ![event[c].expense_id].status = status]
Wrote(c, status) == [hh EXCEPT ![c].lastStatus = status]

\* lambda_handler, handler.py lines 38-61: a request arrives.  Keys are only
\* compared for equality, so the first arrival's retry_count is taken as 0.
LambdaHandler(r, expense_id, retry_count) ==
    /\ hpc[r] = "idle"
    /\ \A q \in Earlier(r) : hpc[q] # "idle"
    /\ Earlier(r) = {} => retry_count = 0
    /\ event' = [event EXCEPT ![r] = [expense_id |-> expense_id,
                                     retry_count |-> retry_count,
                                     bank_transaction_id |-> "None"]]
    /\ hh' = [hh EXCEPT ![r].afterRecord =
                  idempotency_table[GenerateIdempotencyKey(expense_id, retry_count)]
                      # "absent"]
    /\ hpc' = [hpc EXCEPT ![r] = "duplicate_check"]
    /\ UNCHANGED <<expenses, bank_transactions, idempotency_table, hresult,
                   matched_writes, faults>>

\* lambda_handler, lines 53-58 and 84-87: a body without expense_id is
\* answered by _error_response(400, ...), a body that does not parse by
\* _error_response(500, str(e)); _error_response (343-351) builds
\* {"error": message} and nothing else.
ErrorResponse(r) ==
    /\ hpc[r] = "idle"
    /\ \A q \in Earlier(r) : hpc[q] # "idle"
    /\ hh' = [hh EXCEPT ![r] = [NoHistory EXCEPT !.response = "error"]]
    /\ hpc' = [hpc EXCEPT ![r] = "done"]
    /\ UNCHANGED <<expenses, bank_transactions, idempotency_table, event, hresult,
                   matched_writes, faults>>

\* IsDuplicate, were the check never to find a record
IsDuplicate_Never(item) == FALSE
\* _is_duplicate_request, line 282: "Item" in response
IsDuplicate(item) == item = "stored"

\* lines 62-64 with _is_duplicate_request (278-285): get_item raising counts
\* as not a duplicate
IsDuplicateRequest(r) ==
    /\ hpc[r] = "duplicate_check"
    /\ \E ok \in BOOLEAN :
        /\ MayAnswer(ok)
        /\ faults' = Faulted(ok)
        /\ LET item == idempotency_table[GenerateIdempotencyKey(event[r].expense_id,
                                                               event[r].retry_count)]
           IN  IF ok /\ IsDuplicate(item)
               THEN /\ hpc' = [hpc EXCEPT ![r] = "done"]
                    /\ hh' = [hh EXCEPT ![r] = [NoHistory EXCEPT
                                                   !.response = "already_processed"]]
                    /\ event' = [event EXCEPT ![r] = NoEvent]
               ELSE /\ hpc' = [hpc EXCEPT ![r] = "get_expense"]
                    /\ hh' = hh
                    /\ event' = event
    /\ UNCHANGED <<expenses, bank_transactions, idempotency_table, hresult,
                   matched_writes>>

\* ReceiptMissing, were the guard never to fire
ReceiptMissing_Never(expense) == FALSE
\* line 126: `if not expense.receipt_storage_path`
ReceiptMissing(expense) == ~expense.receipt_storage_path

\* process_expense, lines 102-126: fetch the expense, test its receipt
GetExpense(r) ==
    /\ hpc[r] = "get_expense"
    /\ \E ok \in BOOLEAN :
        /\ MayAnswer(ok)
        /\ faults' = Faulted(ok)
        /\ hpc' = [hpc EXCEPT ![r] =
                      IF ~ok THEN "except"
                      ELSE IF ReceiptMissing(expenses[event[r].expense_id])
                           THEN "receipt_not_fetched"
                           ELSE "set_processing"]
        /\ hh' = IF ok THEN hh ELSE Failed(r)
    /\ hresult' = [hresult EXCEPT ![r] = NewHandlerResult]
    /\ UNCHANGED <<expenses, bank_transactions, idempotency_table, event,
                   matched_writes>>

\* lines 126-143: no receipt: status error, then ValueError
ReceiptNotFetched(r) ==
    /\ hpc[r] = "receipt_not_fetched"
    /\ \E ok \in BOOLEAN :
        /\ MayAnswer(ok)
        /\ faults' = Faulted(ok)
        /\ expenses' = IF ok THEN WithStatus(r, "error") ELSE expenses
        /\ hh' = IF ok THEN Wrote(r, "error") ELSE Failed(r)
    /\ hresult' = [hresult EXCEPT ![r].success = FALSE, ![r].decision = "flagged",
                                  ![r].flag_reason = "receipt_not_fetched",
                                  ![r].confidence = 0]
    /\ hpc' = [hpc EXCEPT ![r] = "except"]
    /\ UNCHANGED <<bank_transactions, idempotency_table, event, matched_writes>>

\* lines 145-147: status processing
SetProcessing(r) ==
    /\ hpc[r] = "set_processing"
    /\ \E ok \in BOOLEAN :
        /\ MayAnswer(ok)
        /\ faults' = Faulted(ok)
        /\ expenses' = IF ok THEN WithStatus(r, "processing") ELSE expenses
        /\ hh' = IF ok THEN [Wrote(r, "processing") EXCEPT ![r].setProcessing = TRUE]
                 ELSE Failed(r)
        /\ hpc' = [hpc EXCEPT ![r] = IF ok THEN "agent" ELSE "except"]
    /\ UNCHANGED <<bank_transactions, idempotency_table, event, hresult,
                   matched_writes>>

\* run_expense_agent dispatches match_bank_transaction: the query for
\* unmatched transactions (supabase_client.py 164-172) and the match kept in
\* the result (bank_matching.py 86-92)
AgentMatchBankTransaction(r, b) ==
    /\ hpc[r] = "agent"
    /\ hresult[r].bank_transaction_id = "None"
    /\ bank_transactions[b].status = "unmatched"
    /\ hresult' = [hresult EXCEPT ![r].bank_transaction_id = b]
    /\ UNCHANGED <<expenses, bank_transactions, idempotency_table, hpc, event, hh,
                   matched_writes, faults>>

\* run_expense_agent dispatches flag_for_review (review_flagging.py 44-65):
\* the result is marked, the expense set to flagged; a failing update is
\* logged and dropped
AgentFlagForReview(r) ==
    /\ hpc[r] = "agent"
    /\ hresult[r].flag_reason = "None"
    /\ hresult' = [hresult EXCEPT ![r].success = FALSE, ![r].decision = "needs_review",
                                  ![r].confidence = 60,
                                  ![r].flag_reason = "review_reason"]
    /\ \E ok \in BOOLEAN :
        /\ MayAnswer(ok)
        /\ faults' = Faulted(ok)
        /\ expenses' = IF ok THEN WithStatus(r, "flagged") ELSE expenses
        /\ hh' = IF ok THEN Wrote(r, "flagged") ELSE Failed(r)
    /\ UNCHANGED <<bank_transactions, idempotency_table, hpc, event, matched_writes>>

\* How a run that returned is remembered.
RunEnded(r, res) == [hh EXCEPT ![r].run = IF res.success THEN "success" ELSE "failure"]

\* run_expense_agent returns after a normal completion (agent.py 372-377,
\* 439-447), having created a purchase (qbo_operations.py 235-236) or not;
\* lines 151-153
AgentEndTurn(r, purchased, text) ==
    /\ hpc[r] = "agent"
    /\ LET res == ParseFinalDecision(
                      [hresult[r] EXCEPT !.qbo_purchase_id = IF purchased THEN 1 ELSE 0],
                      text)
       IN  /\ hresult' = [hresult EXCEPT ![r] = res]
           /\ hh' = RunEnded(r, res)
    /\ hpc' = [hpc EXCEPT ![r] = "update"]
    /\ UNCHANGED <<expenses, bank_transactions, idempotency_table, event,
                   matched_writes, faults>>

\* run_expense_agent returns after the iteration cap, a service error or an
\* unexpected stop reason (agent.py 426-447): flagged unless only the stop
\* reason was unexpected
AgentStops(r, flagged) ==
    /\ hpc[r] = "agent"
    /\ hresult' = [hresult EXCEPT ![r].decision = IF flagged THEN "flagged" ELSE @]
    /\ hh' = RunEnded(r, hresult[r])
    /\ hpc' = [hpc EXCEPT ![r] = "update"]
    /\ UNCHANGED <<expenses, bank_transactions, idempotency_table, event,
                   matched_writes, faults>>

\* run_expense_agent raises (anything but anthropic.APIError inside the
\* loop, or building the clients at agent.py 336-342)
AgentRaises(r) ==
    /\ hpc[r] = "agent"
    /\ MayAnswer(FALSE)
    /\ faults' = Faulted(FALSE)
    /\ hh' = [hh EXCEPT ![r].run = "raised"]
    /\ hpc' = [hpc EXCEPT ![r] = "except"]
    /\ UNCHANGED <<expenses, bank_transactions, idempotency_table, event, hresult,
                   matched_writes>>

\* FailureStatus, were a failed run to leave the expense for a retry
FailureStatus_Pending(decision) == "pending"
\* _update_expense_failure, lines 235-240: the status written
FailureStatus(decision) ==
    IF decision = "needs_review" THEN "flagged"
    ELSE IF decision = "duplicate" THEN "duplicate"
    ELSE "flagged"

\* lines 155-159 with _update_expense_success (193-217) and
\* _update_expense_failure (233-248): the terminal update of the expense
UpdateExpense(r) ==
    /\ hpc[r] = "update"
    /\ LET res == hresult[r]
           status == IF res.success THEN "posted" ELSE FailureStatus(res.decision)
       IN  \E ok \in BOOLEAN :
            /\ MayAnswer(ok)
            /\ faults' = Faulted(ok)
            /\ expenses' =
                   IF ~ok THEN expenses
                   ELSE IF res.success
                        THEN [expenses EXCEPT
                                 ![event[r].expense_id].status = "posted",
                                 ![event[r].expense_id].bank_transaction_id =
                                     res.bank_transaction_id]
                        ELSE WithStatus(r, status)
            /\ hh' = IF ok THEN Wrote(r, status) ELSE Failed(r)
            /\ hpc' = [hpc EXCEPT ![r] =
                          IF ~ok THEN "except"
                          ELSE IF res.success /\ res.bank_transaction_id # "None"
                               THEN "update_bank_transaction"
                               ELSE "record_idempotency"]
    /\ UNCHANGED <<bank_transactions, idempotency_table, event, hresult,
                   matched_writes>>

\* _update_expense_success, lines 219-228: the transaction becomes matched
UpdateBankTransaction(r) ==
    /\ hpc[r] = "update_bank_transaction"
    /\ LET b == hresult[r].bank_transaction_id
       IN  \E ok \in BOOLEAN :
            /\ MayAnswer(ok)
            /\ faults' = Faulted(ok)
            /\ bank_transactions' =
                   IF ok THEN [bank_transactions EXCEPT
                                  ![b] = [status |-> "matched",
                                          matched_expense_id |-> event[r].expense_id]]
                   ELSE bank_transactions
            /\ matched_writes' = IF ok THEN [matched_writes EXCEPT ![b] = @ + 1]
                                 ELSE matched_writes
            /\ hh' = IF ok THEN hh ELSE Failed(r)
            /\ hpc' = [hpc EXCEPT ![r] = IF ok THEN "record_idempotency" ELSE "except"]
    /\ UNCHANGED <<expenses, idempotency_table, event, hresult>>

\* lines 165-180: any exception: result flagged, status flagged; a failing
\* update is logged and dropped
ExceptHandler(r) ==
    /\ hpc[r] = "except"
    /\ hresult' = [hresult EXCEPT ![r].success = FALSE, ![r].decision = "flagged",
                                  ![r].flag_reason = "processing_error"]
    /\ \E ok \in BOOLEAN :
        /\ MayAnswer(ok)
        /\ faults' = Faulted(ok)
        /\ expenses' = IF ok THEN WithStatus(r, "flagged") ELSE expenses
        /\ hh' = IF ok THEN Wrote(r, "flagged") ELSE Failed(r)
    /\ hpc' = [hpc EXCEPT ![r] = "record_idempotency"]
    /\ UNCHANGED <<bank_transactions, idempotency_table, event, matched_writes>>

\* lines 69-82 with _record_idempotency (288-299): the record is put (a
\* failing put is logged and dropped) and the result returned
RecordIdempotency(r) ==
    /\ hpc[r] = "record_idempotency"
    /\ \E ok \in BOOLEAN :
        /\ MayAnswer(ok)
        /\ faults' = Faulted(ok)
        /\ idempotency_table' =
               IF ok THEN [idempotency_table EXCEPT
                              ![GenerateIdempotencyKey(event[r].expense_id,
                                                       event[r].retry_count)] = "stored"]
               ELSE idempotency_table
    /\ hh' = [hh EXCEPT ![r] = [NoHistory EXCEPT !.response = "result"]]
    /\ hresult' = [hresult EXCEPT ![r] = NewHandlerResult]
    /\ event' = [event EXCEPT ![r] = NoEvent]
    /\ hpc' = [hpc EXCEPT ![r] = "done"]
    /\ UNCHANGED <<expenses, bank_transactions, matched_writes>>

\* line 296: DynamoDB drops a record once its 24 hour "expiration" has passed
RecordExpires(k) ==
    /\ idempotency_table[k] = "stored"
    /\ idempotency_table' = [idempotency_table EXCEPT ![k] = "expired"]
    /\ UNCHANGED <<expenses, bank_transactions, hpc, event, hresult, hh,
                   matched_writes, faults>>

\* human_approved lambda_handler and process_human_approved, lines 58-224:
\* the expense and the chosen transaction are fetched and the purchase is
\* created
ProcessHumanApproved(h, expense_id, bank_transaction_id) ==
    /\ hpc[h] = "idle"
    /\ event' = [event EXCEPT ![h] = [expense_id |-> expense_id, retry_count |-> 0,
                                     bank_transaction_id |-> bank_transaction_id]]
    /\ hresult' = [hresult EXCEPT ![h].bank_transaction_id = bank_transaction_id,
                                  ![h].qbo_purchase_id = 1]
    /\ hpc' = [hpc EXCEPT ![h] = "human_update_expense"]
    /\ UNCHANGED <<expenses, bank_transactions, idempotency_table, hh,
                   matched_writes, faults>>

\* process_human_approved, lines 267-286: the expense becomes posted
HumanUpdateExpense(h) ==
    /\ hpc[h] = "human_update_expense"
    /\ \E ok \in BOOLEAN :
        /\ MayAnswer(ok)
        /\ faults' = Faulted(ok)
        /\ expenses' =
               IF ok THEN [expenses EXCEPT
                              ![event[h].expense_id].status = "posted",
                              ![event[h].expense_id].bank_transaction_id =
                                  event[h].bank_transaction_id]
               ELSE expenses
        /\ hh' = IF ok THEN Wrote(h, "posted")
                 ELSE [hh EXCEPT ![h] = [NoHistory EXCEPT !.response = "error"]]
        /\ hresult' = IF ok THEN hresult ELSE [hresult EXCEPT ![h] = NewHandlerResult]
        /\ event' = IF ok THEN event ELSE [event EXCEPT ![h] = NoEvent]
        /\ hpc' = [hpc EXCEPT ![h] = IF ok THEN "human_update_bank_transaction"
                                     ELSE "done"]
    /\ UNCHANGED <<bank_transactions, idempotency_table, matched_writes>>

\* process_human_approved, lines 288-312: the transaction becomes matched
HumanUpdateBankTransaction(h) ==
    /\ hpc[h] = "human_update_bank_transaction"
    /\ LET b == event[h].bank_transaction_id
       IN  \E ok \in BOOLEAN :
            /\ MayAnswer(ok)
            /\ faults' = Faulted(ok)
            /\ bank_transactions' =
                   IF ok THEN [bank_transactions EXCEPT
                                  ![b] = [status |-> "matched",
                                          matched_expense_id |-> event[h].expense_id]]
                   ELSE bank_transactions
            /\ matched_writes' = IF ok THEN [matched_writes EXCEPT ![b] = @ + 1]
                                 ELSE matched_writes
            /\ hh' = [hh EXCEPT ![h] = [NoHistory EXCEPT
                                           !.response = IF ok THEN "result" ELSE "error"]]
    /\ hresult' = [hresult EXCEPT ![h] = NewHandlerResult]
    /\ event' = [event EXCEPT ![h] = NoEvent]
    /\ hpc' = [hpc EXCEPT ![h] = "done"]
    /\ UNCHANGED <<expenses, idempotency_table>>

\* process_expense's handler under a set R of invocations
ProcessExpenseNext(R) ==
    \/ \E r \in R, e \in Expenses, rc \in RetryCounts :
           LambdaHandler(r, e, rc) /\ UNCHANGED <<tokenVars, agentVars, recoveryVars, toolVars, postVars>>
    \/ \E r \in R : ErrorResponse(r) /\ UNCHANGED <<tokenVars, agentVars, recoveryVars, toolVars, postVars>>
    \/ \E r \in R : IsDuplicateRequest(r) /\ UNCHANGED <<tokenVars, agentVars, recoveryVars, toolVars, postVars>>
    \/ \E r \in R : GetExpense(r) /\ UNCHANGED <<tokenVars, agentVars, recoveryVars, toolVars, postVars>>
    \/ \E r \in R : ReceiptNotFetched(r) /\ UNCHANGED <<tokenVars, agentVars, recoveryVars, toolVars, postVars>>
    \/ \E r \in R : SetProcessing(r) /\ UNCHANGED <<tokenVars, agentVars, recoveryVars, toolVars, postVars>>
    \/ \E r \in R, b \in BankTxns :
           AgentMatchBankTransaction(r, b) /\ UNCHANGED <<tokenVars, agentVars, recoveryVars, toolVars, postVars>>
    \/ \E r \in R : AgentFlagForReview(r) /\ UNCHANGED <<tokenVars, agentVars, recoveryVars, toolVars, postVars>>
    \/ \E r \in R, purchased \in BOOLEAN, text \in FinalTexts :
           AgentEndTurn(r, purchased, text) /\ UNCHANGED <<tokenVars, agentVars, recoveryVars, toolVars, postVars>>
    \/ \E r \in R, flagged \in BOOLEAN :
           AgentStops(r, flagged) /\ UNCHANGED <<tokenVars, agentVars, recoveryVars, toolVars, postVars>>
    \/ \E r \in R : AgentRaises(r) /\ UNCHANGED <<tokenVars, agentVars, recoveryVars, toolVars, postVars>>
    \/ \E r \in R : UpdateExpense(r) /\ UNCHANGED <<tokenVars, agentVars, recoveryVars, toolVars, postVars>>
    \/ \E r \in R : UpdateBankTransaction(r) /\ UNCHANGED <<tokenVars, agentVars, recoveryVars, toolVars, postVars>>
    \/ \E r \in R : ExceptHandler(r) /\ UNCHANGED <<tokenVars, agentVars, recoveryVars, toolVars, postVars>>
    \/ \E r \in R : RecordIdempotency(r) /\ UNCHANGED <<tokenVars, agentVars, recoveryVars, toolVars, postVars>>
    \/ \E k \in IdempotencyKeys : RecordExpires(k) /\ UNCHANGED <<tokenVars, agentVars, recoveryVars, toolVars, postVars>>

\* human_approved's handler
HumanApprovedNext ==
    \/ \E h \in Humans, e \in Expenses, b \in BankTxns :
           ProcessHumanApproved(h, e, b) /\ UNCHANGED <<tokenVars, agentVars, recoveryVars, toolVars, postVars>>
    \/ \E h \in Humans : HumanUpdateExpense(h) /\ UNCHANGED <<tokenVars, agentVars, recoveryVars, toolVars, postVars>>
    \/ \E h \in Humans : HumanUpdateBankTransaction(h) /\ UNCHANGED <<tokenVars, agentVars, recoveryVars, toolVars, postVars>>

(***************************************************************************)
(* Part IV: stuck recovery                                                 *)
(*   src/lambda/functions/recover_stuck/handler.py                         *)
(* The scheduled function runs every 15 minutes, one run at a time.  An    *)
(* expense is left in processing when the invocation that set it is killed *)
(* (Lambda timeout) or when its terminal writes fail.                      *)
(***************************************************************************)
MAX_RETRY_ATTEMPTS == 3

RecoveryInit ==
    /\ rpc = "idle"
    /\ stuck_expenses = <<>>
    /\ resets = [e \in Expenses |-> 0]
    /\ recovery_flagged = [e \in Expenses |-> FALSE]

\* The invocation is killed while run_expense_agent is at work (handler.py
\* line 151): nothing after line 151 runs, the request may be delivered again.
LambdaTimeout(r) ==
    /\ hpc[r] = "agent"
    /\ hpc' = [hpc EXCEPT ![r] = "idle"]
    /\ event' = [event EXCEPT ![r] = NoEvent]
    /\ hresult' = [hresult EXCEPT ![r] = NewHandlerResult]
    /\ hh' = [hh EXCEPT ![r] = NoHistory]
    /\ UNCHANGED <<expenses, bank_transactions, idempotency_table, matched_writes,
                   faults, recoveryVars, postVars>>

\* Sequences that list the elements of a set once each
RECURSIVE SeqsOf(_)
SeqsOf(S) ==
    IF S = {} THEN {<<>>}
    ELSE UNION { { <<x>> \o t : t \in SeqsOf(S \ {x}) } : x \in S }

\* get_stuck_expenses, supabase_client.py 256-265: the rows in status
\* processing whose updated_at is older than the threshold
StuckRow(e) == [id |-> e, processing_attempts |-> expenses[e].processing_attempts]

\* lines 42-55: the query; an empty answer ends the run
RecoverQuery ==
    /\ rpc = "idle"
    /\ \E ok \in BOOLEAN :
        /\ MayAnswer(ok)
        /\ faults' = Faulted(ok)
        /\ IF ok
           THEN \E old \in SUBSET { e \in Expenses : expenses[e].status = "processing" } :
                \E order \in SeqsOf(old) :
                    /\ stuck_expenses' = [i \in 1..Len(order) |-> StuckRow(order[i])]
                    /\ rpc' = IF old = {} THEN "idle" ELSE "loop"
           ELSE /\ stuck_expenses' = <<>>
                /\ rpc' = "idle"
    /\ UNCHANGED <<expenses, bank_transactions, idempotency_table, hpc, event,
                   hresult, hh, matched_writes, resets, recovery_flagged>>

\* RetryAllowed, were the cap compared with <=
RetryAllowed_Inclusive(attempts) == attempts <= MAX_RETRY_ATTEMPTS
\* line 61: `if attempts < MAX_RETRY_ATTEMPTS`
RetryAllowed(attempts) == attempts < MAX_RETRY_ATTEMPTS

\* lines 57-79: one turn of the loop; an update that raises ends the run
\* (lines 93-98)
RecoverExpense ==
    /\ rpc = "loop"
    /\ LET expense == Head(stuck_expenses)
           expense_id == expense.id
           attempts == expense.processing_attempts
       IN  \E ok \in BOOLEAN :
            /\ MayAnswer(ok)
            /\ faults' = Faulted(ok)
            /\ IF ~ok
               THEN /\ stuck_expenses' = <<>>
                    /\ rpc' = "idle"
                    /\ UNCHANGED <<expenses, resets, recovery_flagged>>
               ELSE /\ stuck_expenses' = Tail(stuck_expenses)
                    /\ rpc' = IF Len(stuck_expenses) = 1 THEN "idle" ELSE "loop"
                    /\ IF RetryAllowed(attempts)
                       THEN /\ expenses' = [expenses EXCEPT
                                               ![expense_id].status = "pending",
                                               ![expense_id].processing_attempts =
                                                   attempts + 1]
                            /\ resets' = [resets EXCEPT ![expense_id] = @ + 1]
                            /\ UNCHANGED recovery_flagged
                       ELSE /\ expenses' = [expenses EXCEPT
                                               ![expense_id].status = "flagged"]
                            /\ recovery_flagged' =
                                   [recovery_flagged EXCEPT ![expense_id] = TRUE]
                            /\ UNCHANGED resets
    /\ UNCHANGED <<bank_transactions, idempotency_table, hpc, event, hresult, hh,
                   matched_writes>>

\* recover_stuck's handler, and the invocations it cleans up after
RecoverStuckNext ==
    \/ RecoverQuery /\ UNCHANGED <<tokenVars, agentVars, toolVars, postVars>>
    \/ RecoverExpense /\ UNCHANGED <<tokenVars, agentVars, toolVars, postVars>>
    \/ \E r \in {"r1"} : LambdaTimeout(r) /\ UNCHANGED <<tokenVars, agentVars, toolVars, postVars>>

(***************************************************************************)
(* Part V: bank matcher and receipt comparison                             *)
(*   src/lambda/functions/process_expense/tools/bank_matching.py           *)
(*   src/lambda/layers/common/python/models/bank_transaction.py            *)
(*   src/lambda/functions/process_expense/tools/receipt_validation.py      *)
(* Amounts are in cents.  The code computes with binary floating point:    *)
(* a result whose exact value touches the bound it is compared with may    *)
(* fall on either side of it (1.10 - 0.60 > 0.5, 50.01 - 50.00 < 0.01,     *)
(* 56.85 / 45.48 > 1.25).  fp_off tells that the record's amount is one    *)
(* for which it falls on the other side.  Quotients of exact value 1.15    *)
(* or 1.18 compare equal to these literals for all cent amounts up to      *)
(* 2000.00.                                                                *)
(***************************************************************************)
amount_tolerance == 50          \* input_args.get("amount_tolerance", 0.50)
date_tolerance_days == 3        \* input_args.get("date_tolerance_days", 3)

Abs(x) == IF x < 0 THEN 0 - x ELSE x

\* ---- datetime.date ----
Date(year, month, day) == [year |-> year, month |-> month, day |-> day]
DaysInMonth(year, month) ==
    IF month = 2 THEN (IF year % 4 = 0 THEN 29 ELSE 28)
    ELSE IF month \in {4, 6, 9, 11} THEN 30
    ELSE 31
\* what date(...), date.replace(...) and strptime accept
IsValidDate(d) == d.month \in 1..12 /\ d.day \in 1..DaysInMonth(d.year, d.month)
RECURSIVE DaysBeforeMonth(_, _)
DaysBeforeMonth(year, month) ==
    IF month = 1 THEN 0
    ELSE DaysBeforeMonth(year, month - 1) + DaysInMonth(year, month - 1)
\* days since 2023-12-31, for the years 2024 to 2027
Toordinal(d) ==
    365 * (d.year - 2024) + (IF d.year > 2024 THEN 1 ELSE 0)
    + DaysBeforeMonth(d.year, d.month) + d.day
\* abs((a - b).days)
DaysApart(a, b) == Abs(Toordinal(a) - Toordinal(b))

\* ---- floating-point comparisons on amounts in cents ----
\* abs(a - b) <= bound
FloatDiffLe(a, b, bound, fp_off) ==
    IF Abs(a - b) = bound THEN ~fp_off ELSE Abs(a - b) < bound
\* abs(a - b) < bound
FloatDiffLt(a, b, bound, fp_off) ==
    IF Abs(a - b) = bound THEN fp_off ELSE Abs(a - b) < bound
\* lo/100 <= a / b <= hi/100, for b > 0
FloatRatioIn(a, b, lo, hi, fp_off) ==
    /\ lo * b <= 100 * a
    /\ IF 100 * a = hi * b THEN ~fp_off ELSE 100 * a < hi * b

\* ---- BankTransaction.matches_expense ----
\* _merchant_matches, bank_transaction.py 173-191: a word of four letters or
\* more of the merchant name occurs in the description.  A merchant name is
\* the set of its words of four letters or more (none: the empty set), a
\* description the set of such words that occur in it.
MerchantMatches_Always(merchant_name, description) == TRUE
MerchantMatches(merchant_name, description) ==
    \E word \in merchant_name : word \in description

\* Score, were the tip tier to count as much as an exact match
Score_TipHighest(match_type) ==
    IF match_type = "no_match" THEN 0
    ELSE IF match_type \in {"exact", "restaurant_with_tip"} THEN 100
    ELSE IF match_type = "amount_date_match" THEN 95
    ELSE IF match_type = "amount_merchant_match" THEN 90
    ELSE 70
\* Score, were the tip tier to rank below amount-only
Score_TipLowest(match_type) ==
    IF match_type = "exact" THEN 100
    ELSE IF match_type = "amount_date_match" THEN 95
    ELSE IF match_type = "amount_merchant_match" THEN 90
    ELSE IF match_type = "amount_only_match" THEN 70
    ELSE IF match_type = "restaurant_with_tip" THEN 65
    ELSE 0
\* bank_transaction.py 157-171: the confidence returned with each match type
Score(match_type) ==
    IF match_type = "exact" THEN 100
    ELSE IF match_type = "amount_date_match" THEN 95
    ELSE IF match_type = "amount_merchant_match" THEN 90
    ELSE IF match_type = "amount_only_match" THEN 70
    ELSE IF match_type = "restaurant_with_tip" THEN 75
    ELSE 0

\* bank_transaction.py 143-171: the match type
MatchType(txn, expense_amount, expense_date, merchant_name, tolerance, days) ==
    LET amount_matches == FloatDiffLe(txn.amount, expense_amount, tolerance, txn.fp_off)
        date_matches == DaysApart(txn.transaction_date, expense_date) <= days
        merchant_matches == MerchantMatches(merchant_name, txn.description)
    IN  IF amount_matches /\ date_matches /\ merchant_matches THEN "exact"
        ELSE IF amount_matches /\ date_matches THEN "amount_date_match"
        ELSE IF amount_matches /\ merchant_matches THEN "amount_merchant_match"
        ELSE IF amount_matches THEN "amount_only_match"
        ELSE IF /\ expense_amount > 0
                /\ FloatRatioIn(txn.amount, expense_amount, 118, 125, txn.fp_off)
                /\ date_matches
             THEN "restaurant_with_tip"
        ELSE "no_match"

\* matches_expense: (is_match, confidence_score, match_type)
MatchesExpense(txn, expense_amount, expense_date, merchant_name, tolerance, days) ==
    LET match_type == MatchType(txn, expense_amount, expense_date, merchant_name,
                                tolerance, days)
    IN  [is_match |-> match_type # "no_match",
         score |-> Score(match_type),
         match_type |-> match_type]

\* ---- match_bank_transaction ----
\* get_unmatched_bank_transactions, supabase_client.py 148-187: the ids of the
\* unmatched rows of the source dated within the window, by transaction_date
GetUnmatchedBankTransactions(source, date, days) ==
    SelectSeq([i \in 1..Len(bank_rows) |-> i],
              LAMBDA i : /\ bank_rows[i].status = "unmatched"
                         /\ bank_rows[i].source = source
                         /\ Toordinal(bank_rows[i].transaction_date)
                                >= Toordinal(date) - days
                         /\ Toordinal(bank_rows[i].transaction_date)
                                <= Toordinal(date) + days)

NoBest == [match |-> 0, score |-> 0, match_type |-> "no_match"]

\* Better, were a later candidate of equal score to replace the best one
Better_LastWins(score, best_score) == score >= best_score
\* lines 81 and 226: `score > best_score`
Better(score, best_score) == score > best_score

\* lines 65-84 and 210-229: score the candidates in order, keep the best
RECURSIVE ScoreCandidates(_, _, _, _)
ScoreCandidates(candidates, args, date, best) ==
    IF candidates = <<>> THEN best
    ELSE LET id == Head(candidates)
             m == MatchesExpense(bank_rows[id], args.amount, date, args.merchant_name,
                                 amount_tolerance, date_tolerance_days)
             kept == IF m.is_match /\ Better(m.score, best.score)
                     THEN [match |-> id, score |-> m.score, match_type |-> m.match_type]
                     ELSE best
         IN  ScoreCandidates(Tail(candidates), args, date, kept)

\* what the operation returns and records in the ProcessingResult:
\*   queries      the dates get_unmatched_bank_transactions was called around
\*   corrections  the Corrections it appended
MatchOutput(success, found, best, suffix, queries, corrections) ==
    [success |-> success, found |-> found, transaction |-> best.match,
     confidence |-> best.score, match_type |-> best.match_type, suffix |-> suffix,
     queries |-> queries, corrections |-> corrections]
NoMatchOutput == MatchOutput(FALSE, FALSE, NoBest, "", <<>>, <<>>)

\* line 182: `if day > 12 or day == month: return None`
InversionPossible(date) == ~(date.day > 12 \/ date.day = date.month)

\* _try_date_inversion_match, lines 157-270; None when it returns None,
\* Some(output) otherwise; queries tells whether the second query was made
TryDateInversionMatch(args) ==
    LET original_date == args.date
        inverted_date == Date(original_date.year, original_date.day, original_date.month)
    IN  IF ~InversionPossible(original_date)
        THEN [queries |-> <<>>, out |-> None]
        ELSE IF ~IsValidDate(inverted_date)
        THEN [queries |-> <<>>, out |-> None]
        ELSE LET inverted_candidates ==
                     GetUnmatchedBankTransactions(args.source, inverted_date,
                                                  date_tolerance_days)
                 best == ScoreCandidates(inverted_candidates, args, inverted_date, NoBest)
             IN  [queries |-> <<inverted_date>>,
                  out |-> IF best.match = 0 THEN None
                          ELSE Some(MatchOutput(TRUE, TRUE, best, "_date_corrected",
                                      <<original_date, inverted_date>>,
                                      <<[field_name |-> "expense_date",
                                         original_value |-> original_date,
                                         corrected_value |-> inverted_date]>>))]

\* _find_tip_match, lines 273-311: the first candidate 15 to 25 % above the
\* expense and at most 3 days away; 0 when there is none
RECURSIVE FindTipMatch(_, _, _)
FindTipMatch(candidates, expense_amount, expense_date) ==
    IF candidates = <<>> THEN 0
    ELSE LET txn == bank_rows[Head(candidates)]
         IN  IF /\ expense_amount > 0
                /\ FloatRatioIn(txn.amount, expense_amount, 115, 125, txn.fp_off)
                /\ DaysApart(txn.transaction_date, expense_date) <= 3
             THEN Head(candidates)
             ELSE FindTipMatch(Tail(candidates), expense_amount, expense_date)

\* match_bank_transaction, lines 18-154
MatchBankTransactionResult(args) ==
    IF args.amount = 0 \/ IsNone(args.date_string)
    THEN NoMatchOutput                                      \* lines 39-40
    ELSE IF ~IsValidDate(Val(args.date_string))
    THEN NoMatchOutput                                      \* strptime raises: 152-154
    ELSE
    LET a == [amount |-> args.amount, date |-> Val(args.date_string),
              merchant_name |-> args.merchant_name, source |-> args.source]
        candidates == GetUnmatchedBankTransactions(a.source, a.date, date_tolerance_days)
        best == ScoreCandidates(candidates, a, a.date, NoBest)
        inverted == TryDateInversionMatch(a)
        tip == FindTipMatch(candidates, a.amount, a.date)
    IN  IF candidates = <<>>                                \* lines 57-63
        THEN MatchOutput(TRUE, FALSE, NoBest, "", <<a.date>>, <<>>)
        ELSE IF best.match # 0                              \* lines 86-107
        THEN MatchOutput(TRUE, TRUE, best, "", <<a.date>>, <<>>)
        ELSE IF ~IsNone(inverted.out)                       \* lines 111-116
        THEN Val(inverted.out)
        ELSE IF tip # 0                                     \* lines 118-142
        THEN MatchOutput(TRUE, TRUE,
                         [match |-> tip, score |-> 75,
                          match_type |-> "restaurant_with_tip"], "",
                         <<a.date>> \o inverted.queries,
                         <<[field_name |-> "amount", original_value |-> a.amount,
                            corrected_value |-> bank_rows[tip].amount]>>)
        ELSE MatchOutput(TRUE, FALSE, NoBest, "",           \* lines 144-150
                         <<a.date>> \o inverted.queries, <<>>)

\* ---- _compare_receipt_data ----
\* Python truth of an optional number: not None and not 0
Truthy(o) == ~IsNone(o) /\ Val(o) # 0

\* _fuzzy_merchant_match, lines 333-339: the two names share a word of four
\* letters or more
FuzzyMerchantMatch(receipt_merchant, expected_merchant) ==
    receipt_merchant \cap expected_merchant # {}

\* lines 250-273: how the receipt amount compares
AmountKind(receipt_amount, expected_amount, fp_off) ==
    IF ~(Truthy(receipt_amount) /\ Truthy(expected_amount)) THEN "skipped"
    ELSE IF FloatDiffLt(Val(receipt_amount), Val(expected_amount), 1, fp_off)
    THEN "exact"
    ELSE IF Val(receipt_amount) > Val(expected_amount)
    THEN IF FloatRatioIn(Val(receipt_amount), Val(expected_amount), 115, 125, fp_off)
         THEN "tip" ELSE "mismatch"
    ELSE "mismatch"

\* lines 279-309: how the receipt date compares
DateKind(receipt_date, expected_date) ==
    IF IsNone(receipt_date) \/ IsNone(expected_date) THEN "skipped"
    ELSE IF receipt_date = expected_date THEN "same"
    ELSE IF ~IsValidDate(Val(expected_date)) \/ ~IsValidDate(Val(receipt_date))
    THEN "unparsed"
    ELSE LET expected_dt == Val(expected_date)
             receipt_dt == Val(receipt_date)
             day_diff == DaysApart(receipt_dt, expected_dt)
         IN  IF day_diff = 0 THEN "same"
             ELSE IF day_diff <= 3 THEN "drift"
             ELSE IF /\ expected_dt.day = receipt_dt.month
                     /\ expected_dt.month = receipt_dt.day
                  THEN "inversion"
             ELSE "mismatch"

\* the penalties of lines 261, 266, 272, 292, 299, 305, 309 and 318
Penalty(kind) ==
    [amount |-> IF kind.amount = "tip" THEN 5
                ELSE IF kind.amount = "mismatch" THEN 20 ELSE 0,
     date |-> IF kind.date = "drift" THEN 5
              ELSE IF kind.date = "inversion" THEN 15
              ELSE IF kind.date = "mismatch" THEN 25
              ELSE IF kind.date = "unparsed" THEN 10 ELSE 0,
     merchant |-> IF kind.merchant = "mismatch" THEN 10 ELSE 0]

\* _compare_receipt_data, lines 234-330
CompareReceiptDataResult(args) ==
    LET kind == [amount |-> AmountKind(args.extracted.amount, args.expected_amount,
                                       args.extracted.fp_off),
                 date |-> DateKind(args.extracted.date, args.expected_date),
                 merchant |->                               \* lines 312-318
                     IF IsNone(args.extracted.merchant) \/ IsNone(args.expected_merchant)
                     THEN "skipped"
                     ELSE IF FuzzyMerchantMatch(Val(args.extracted.merchant),
                                                Val(args.expected_merchant))
                     THEN "match"
                     ELSE "mismatch"]
        confidence == 100 - Penalty(kind).amount - Penalty(kind).date
                          - Penalty(kind).merchant
    IN  [validated |-> kind.amount # "mismatch" /\ kind.date # "mismatch",
         confidence |-> IF confidence < 0 THEN 0 ELSE confidence,
         kind |-> kind,
         amount_differs |-> kind.amount = "mismatch",
         date_differs |-> kind.date \in {"inversion", "mismatch"},
         suggested_corrections |->
             (IF kind.amount = "mismatch" THEN {"amount"} ELSE {})
             \cup (IF kind.date \in {"inversion", "mismatch"}
                   THEN {"expense_date"} ELSE {})]

\* ---- inputs ----
MaxRows == 2            \* rows of bank_transactions

\* the expense is of 10.00 at merchant "ACME"
RowKinds ==
    { row \in [transaction_date : {Date(2025, 3, 12), Date(2025, 3, 15),
                                   Date(2025, 5, 5), Date(2025, 12, 3)},
               description : {{"ACME"}, {"OTHER"}},
               amount : {1000, 1050, 1100, 1150, 1180, 1250, 1300},
               source : {"amex", "wells_fargo"},
               status : {"unmatched", "matched"},
               fp_off : BOOLEAN] :
        /\ row.fp_off => row.amount \in {1050, 1250}
        /\ row.amount \notin {1000, 1050} => row.description = {"OTHER"}
        /\ (row.source # "amex" \/ row.status # "unmatched")
           => /\ row.amount = 1000 /\ row.description = {"ACME"}
              /\ (row.source = "amex" \/ row.status = "unmatched") }
\* the tables of n rows at most, as the query orders them:
\* transaction_date.asc
RECURSIVE Tables(_)
Tables(n) ==
    IF n = 0 THEN {<<>>}
    ELSE LET shorter == Tables(n - 1)
         IN  shorter \cup
             { Append(p[1], p[2]) :
                 p \in { q \in shorter \X RowKinds :
                           /\ Len(q[1]) = n - 1
                           /\ n > 1 => Toordinal(q[1][n - 1].transaction_date)
                                           <= Toordinal(q[2].transaction_date) } }
\* input_args of match_bank_transaction; no merchant name is the empty set
MatchArgs(amount, date_string, merchant_name) ==
    [amount |-> amount, date_string |-> date_string, merchant_name |-> merchant_name,
     source |-> "amex"]
ExpenseDates == {Date(2025, 3, 12), Date(2025, 3, 15), Date(2025, 5, 5)}
\* well-formed arguments with any table (without a merchant name: with
\* tables of one row at most), malformed ones with an empty table
MatchInputs ==
    { <<MatchArgs(1000, Some(d), {"ACME"}), t>> :
        d \in ExpenseDates, t \in Tables(MaxRows) }
    \cup { <<MatchArgs(1000, Some(d), {}), t>> : d \in ExpenseDates, t \in Tables(1) }
    \cup { <<MatchArgs(0, Some(Date(2025, 3, 12)), {"ACME"}), <<>>>>,
           <<MatchArgs(1000, None, {"ACME"}), <<>>>>,
           <<MatchArgs(1000, Some(Date(2025, 13, 1)), {"ACME"}), <<>>>> }
\* matches_expense is studied on one or two rows at a time
ScoreInputs ==
    { <<MatchArgs(1000, Some(d), m), t>> :
        d \in ExpenseDates, m \in {{"ACME"}, {}},
        t \in Tables(2) \ {<<>>} }

\* the expected values are 10.00 on 2025-03-12 at "ACME"
ReceiptInputs ==
    { args \in [extracted : [amount : {None, Some(0), Some(900), Some(1000), Some(1001),
                                       Some(1100), Some(1150), Some(1250), Some(1300)},
                             date : {None, Some(Date(2025, 3, 12)), Some(Date(2025, 3, 15)),
                                     Some(Date(2025, 3, 16)), Some(Date(2025, 12, 3)),
                                     Some(Date(2024, 12, 3)), Some(Date(2025, 13, 1))},
                             merchant : {None, Some({"ACME"}), Some({"OTHER"}), Some({})},
                             fp_off : BOOLEAN],
                expected_amount : {None, Some(1000)},
                expected_merchant : {Some({"ACME"})},
                expected_date : {Some(Date(2025, 3, 12))}] :
        args.extracted.fp_off => args.extracted.amount \in {Some(1001), Some(1250)} }

NoReceiptArgs ==
    [extracted |-> [amount |-> None, date |-> None, merchant |-> None, fp_off |-> FALSE],
     expected_amount |-> None, expected_merchant |-> Some({"ACME"}),
     expected_date |-> None]

\* ---- determine_state (state_determination.py) ----
\* Tags of the "Course Location" field, and what _extract_state_from_tag
\* (lines 126-151) makes of them: a state pattern, "Other" (NC), or nothing.
StateTags == {"Texas - TX", "Other", "Headquarters"}
ExtractStateFromTag(tag) ==
    IF IsNone(tag) THEN None
    ELSE IF Val(tag) = "Texas - TX" THEN Some("TX")
    ELSE IF Val(tag) = "Other" THEN Some("NC")
    ELSE None

\* MondayClient.get_event_for_expense (monday_client.py 170-206) on the
\* events of the date range: the first event in the hinted state, else the
\* first event.
RECURSIVE FirstInState(_, _)
FirstInState(events, state_code) ==
    IF events = <<>> THEN None
    ELSE IF Head(events).state = state_code THEN Some(Head(events))
    ELSE FirstInState(Tail(events), state_code)
GetEventForExpense(events, state_code) ==
    IF events = <<>> THEN None
    ELSE IF ~IsNone(state_code) /\ ~IsNone(FirstInState(events, state_code))
         THEN FirstInState(events, state_code)
    ELSE Some(Head(events))

\* _lookup_monday_event, lines 154-179: the state of the event found; {} when
\* no event was found or the lookup raised
LookupMondayEvent(args) ==
    IF args.monday_raises THEN None
    ELSE LET found == GetEventForExpense(args.events,
                                         ExtractStateFromTag(args.zoho_state_tag))
         IN  IF IsNone(found) THEN None ELSE Val(found).state

\* lines 196-202: the built-in vendor patterns, in dictionary order
VendorPatterns ==
    << [pattern |-> "CHEVRON", state |-> None, confidence |-> None],
       [pattern |-> "SHELL", state |-> None, confidence |-> None],
       [pattern |-> "STARBUCKS", state |-> None, confidence |-> None],
       [pattern |-> "AMAZON", state |-> Some("NC"), confidence |-> Some(60)],
       [pattern |-> "COSTCO", state |-> None, confidence |-> None] >>

\* lines 204-209: the first pattern that occurs in the name decides (break)
RECURSIVE FirstPattern(_, _)
FirstPattern(patterns, vendor_name) ==
    IF patterns = <<>> THEN None
    ELSE IF Head(patterns).pattern \in vendor_name
         THEN (IF ~IsNone(Head(patterns).state) THEN Some(Head(patterns)) ELSE None)
    ELSE FirstPattern(Tail(patterns), vendor_name)

\* _lookup_vendor_state, lines 182-214: None, or a dictionary with "state"
\* and (possibly) "confidence".  A row of vendor_rules is handed on with
\* whatever default_state it has.
LookupVendorState(args) ==
    IF args.rules_raise THEN None
    ELSE IF ~IsNone(args.rules)
         THEN Some([state |-> Val(args.rules).default_state,
                    confidence |-> Some(Val(args.rules).confidence)])
    ELSE LET rule == FirstPattern(VendorPatterns, Val(args.vendor_name))
         IN  IF IsNone(rule) THEN None
             ELSE Some([state |-> Val(rule).state, confidence |-> Val(rule).confidence])

StateOutput(success, state, source, confidence) ==
    [success |-> success, state |-> state, source |-> source, confidence |-> confidence]
NoStateOutput == StateOutput(FALSE, None, "not called", 0)

\* determine_state, lines 27-123
DetermineStateResult(args) ==
    LET tag_state == ExtractStateFromTag(args.zoho_state_tag)
        monday_state == IF IsNone(args.expense_date) THEN None
                        ELSE LookupMondayEvent(args)
        vendor_state == IF IsNone(args.vendor_name) THEN None
                        ELSE LookupVendorState(args)
    IN  IF ~IsNone(args.zoho_state_tag) /\ ~args.is_cos /\ ~IsNone(tag_state)
        THEN StateOutput(TRUE, tag_state, "zoho_tag", 95)
        ELSE IF ~IsNone(monday_state)
        THEN StateOutput(TRUE, monday_state, "monday_event", 90)
        ELSE IF ~IsNone(vendor_state)
        THEN StateOutput(TRUE, Val(vendor_state).state, "vendor_rule",
                         IF IsNone(Val(vendor_state).confidence) THEN 70
                         ELSE Val(Val(vendor_state).confidence))
        ELSE IF ~IsNone(tag_state)
        THEN StateOutput(TRUE, tag_state, "zoho_tag_fallback", 80)
        ELSE StateOutput(FALSE, None, "none", 0)

\* The calls of determine_state under study: the arguments, and what Monday
\* and the vendor_rules table hold at the time of the call.  A vendor name
\* is taken by the built-in patterns that occur in it.
StateEvent(state) == [state |-> state]
StateArgs(tag, date, vendor_name, is_cos, events, monday_raises, rules, rules_raise) ==
    [zoho_state_tag |-> tag, expense_date |-> date, vendor_name |-> vendor_name,
     is_cos |-> is_cos, events |-> events, monday_raises |-> monday_raises,
     rules |-> rules, rules_raise |-> rules_raise]
NoStateArgs == StateArgs(None, None, None, FALSE, <<>>, FALSE, None, FALSE)
StateInputs ==
    { StateArgs(tag, date, vendor_name, is_cos, events, monday_raises, rules, rules_raise) :
        tag \in {None} \cup { Some(t) : t \in StateTags },
        date \in {None, Some("2025-12-05")},
        vendor_name \in {None, Some({}), Some({"AMAZON"}), Some({"CHEVRON", "AMAZON"})},
        is_cos \in BOOLEAN,
        events \in { <<>>, <<StateEvent(Some("TX"))>>, <<StateEvent(None)>>,
                     <<StateEvent(Some("CA")), StateEvent(Some("TX"))>>,
                     <<StateEvent(None), StateEvent(Some("TX"))>> },
        monday_raises \in BOOLEAN,
        rules \in { None, Some([default_state |-> Some("CO"), confidence |-> 85]),
                    Some([default_state |-> None, confidence |-> 85]) },
        rules_raise \in BOOLEAN }

\* no operation under study
ToolsInit ==
    /\ mpc = "idle"
    /\ match_args = MatchArgs(0, None, {})
    /\ bank_rows = <<>>
    /\ match_out = NoMatchOutput
    /\ receipt_args = NoReceiptArgs
    /\ validation = CompareReceiptDataResult(NoReceiptArgs)
    /\ scores = <<>>
    /\ state_args = NoStateArgs
    /\ state_out = NoStateOutput

\* match_bank_transaction, matches_expense or _compare_receipt_data is about
\* to be called
ToolsCalled ==
    /\ match_out = NoMatchOutput
    /\ validation = CompareReceiptDataResult(NoReceiptArgs)
    /\ scores = <<>>
    /\ state_out = NoStateOutput
    /\ \/ /\ mpc = "match"
          /\ \E input \in MatchInputs : match_args = input[1] /\ bank_rows = input[2]
          /\ receipt_args = NoReceiptArgs
          /\ state_args = NoStateArgs
       \/ /\ mpc = "score"
          /\ \E input \in ScoreInputs : match_args = input[1] /\ bank_rows = input[2]
          /\ receipt_args = NoReceiptArgs
          /\ state_args = NoStateArgs
       \/ /\ mpc = "compare"
          /\ match_args = MatchArgs(0, None, {})
          /\ bank_rows = <<>>
          /\ receipt_args \in ReceiptInputs
          /\ state_args = NoStateArgs
       \/ /\ mpc = "determine"
          /\ match_args = MatchArgs(0, None, {})
          /\ bank_rows = <<>>
          /\ receipt_args = NoReceiptArgs
          /\ state_args \in StateInputs

MatchBankTransaction ==
    /\ mpc = "match"
    /\ match_out' = MatchBankTransactionResult(match_args)
    /\ mpc' = "matched"
    /\ UNCHANGED <<match_args, bank_rows, receipt_args, validation, scores,
                   state_args, state_out>>

\* matches_expense is called on every row of the table, whatever its date,
\* source and status (bank_transaction.py 122-171)
ScoreRows ==
    /\ mpc = "score"
    /\ scores' = [i \in 1..Len(bank_rows) |->
                     MatchesExpense(bank_rows[i], match_args.amount,
                                    Val(match_args.date_string), match_args.merchant_name,
                                    amount_tolerance, date_tolerance_days)]
    /\ mpc' = "scored"
    /\ UNCHANGED <<match_args, bank_rows, match_out, receipt_args, validation,
                   state_args, state_out>>

CompareReceiptData ==
    /\ mpc = "compare"
    /\ validation' = CompareReceiptDataResult(receipt_args)
    /\ mpc' = "compared"
    /\ UNCHANGED <<match_args, bank_rows, match_out, receipt_args, scores,
                   state_args, state_out>>

DetermineState ==
    /\ mpc = "determine"
    /\ state_out' = DetermineStateResult(state_args)
    /\ mpc' = "determined"
    /\ UNCHANGED <<match_args, bank_rows, match_out, receipt_args, validation, scores,
                   state_args>>

ToolsNext ==
    \/ MatchBankTransaction /\ UNCHANGED <<tokenVars, agentVars, handlerVars, recoveryVars, postVars>>
    \/ ScoreRows /\ UNCHANGED <<tokenVars, agentVars, handlerVars, recoveryVars, postVars>>
    \/ CompareReceiptData /\ UNCHANGED <<tokenVars, agentVars, handlerVars, recoveryVars, postVars>>
    \/ DetermineState /\ UNCHANGED <<tokenVars, agentVars, handlerVars, recoveryVars, postVars>>

(***************************************************************************)
(* Part VI: posting with corrections                                       *)
(*          (human_approved/handler.py process_human_approved and          *)
(*          process_expense/handler.py _update_expense_success).  Amounts  *)
(*          are cents; a date string is written by its digits (20250512    *)
(*          is "2025-05-12", 2025512 is "2025-5-12", 12052025 is           *)
(*          "12/05/2025", 0 is ""); a date is the digits of its ISO form.  *)
(***************************************************************************)
\* datetime.strptime(s, "%Y-%m-%d").date(): None stands for ValueError
Strptime(s) ==
    IF s \in {20250512, 2025512} THEN Some(20250512)
    ELSE IF s = 20251205 THEN Some(20251205)
    ELSE None
\* date.isoformat()
Isoformat(d) == d

\* the zoho_expenses row under study before the posting
StoredRows ==
    { [status |-> "flagged", amount |-> Some(4548), expense_date |-> d,
       original_amount |-> None, original_expense_date |-> None] :
         d \in {None, Some(20251205)} }

\* body["corrections"] of the request (human_approved/handler.py line 86)
RequestCorrections ==
    [amount : {None, Some(0), Some(5685)},
     expense_date : {None, Some(20250512), Some(2025512), Some(12052025)}]
NoCorrections == [amount |-> None, expense_date |-> None]

\* Correction (processing_result.py 132-149): the fields the handlers read
Correction(field_name, original_value, corrected_value, source) ==
    [field_name |-> field_name, original_value |-> original_value,
     corrected_value |-> corrected_value, source |-> source]

\* ProcessingResult(expense_id=...), the fields the two routines use
NewPostingResult == [corrections |-> <<>>, qbo_purchase_id |-> None, success |-> FALSE]

\* The corrections an agent run that ended posted may hold: an amount taken
\* from the receipt (receipt_validation.py 83-91) or from a transaction with
\* tip (bank_matching.py 126-133), a date taken from the receipt (94-102)
\* or inverted (bank_matching.py 241-248).
AgentCorrections ==
    LET tip == Correction("amount", Some(4548), Some(5685), "bank_transaction")
        receipt == Correction("amount", Some(4548), Some(5000), "receipt")
        inverted == Correction("expense_date", Some(20251205), Some(20250512),
                               "bank_transaction_matching")
    IN  { <<>>, <<tip>>, <<receipt>>, <<inverted>>, <<receipt, inverted>>,
          <<inverted, tip>> }

\* Supabase update_expense: the columns named in update_data are written
ApplyUpdate(stored, update_data) ==
    [f \in DOMAIN stored |-> IF f \in DOMAIN update_data THEN update_data[f]
                             ELSE stored[f]]

\* human_approved/handler.py lines 278-284: the loop over result.corrections
RECURSIVE HumanUpdateData(_, _)
HumanUpdateData(update_data, entries) ==
    IF entries = <<>> THEN update_data
    ELSE LET correction == Head(entries)
         IN  HumanUpdateData(
                 IF correction.field_name = "amount"
                 THEN ("original_amount" :> correction.original_value)
                      @@ ("amount" :> correction.corrected_value) @@ update_data
                 ELSE IF correction.field_name = "expense_date"
                 THEN ("original_expense_date" :> correction.original_value)
                      @@ update_data
                 ELSE update_data,
                 Tail(entries))

\* process_expense/handler.py lines 206-215: the loop over result.corrections
RECURSIVE AgentUpdateData(_, _)
AgentUpdateData(update_data, entries) ==
    IF entries = <<>> THEN update_data
    ELSE LET correction == Head(entries)
         IN  AgentUpdateData(
                 IF correction.field_name = "amount"
                 THEN ("original_amount" :> correction.original_value) @@ update_data
                 ELSE IF correction.field_name = "expense_date"
                 THEN ("original_expense_date" :> correction.original_value)
                      @@ ("expense_date" :> correction.corrected_value) @@ update_data
                 ELSE update_data,
                 Tail(entries))

\* no posting under study
PostingInit ==
    /\ ppc = "idle"
    /\ body_corrections = NoCorrections
    /\ expense_row \in { stored \in StoredRows : ~IsNone(stored.expense_date) }
    /\ expense_obj = [amount |-> None, expense_date |-> None]
    /\ presult = NewPostingResult
    /\ qbo_purchase = None
    /\ invoked = <<>>

\* process_human_approved is called with some corrections, or
\* _update_expense_success with the result of some run
PostingCalled ==
    /\ expense_obj = [amount |-> None, expense_date |-> None]
    /\ qbo_purchase = None
    /\ invoked = <<>>
    /\ \/ /\ ppc = "human_approved"
          /\ body_corrections \in RequestCorrections
          /\ expense_row \in StoredRows
          /\ presult = NewPostingResult
       \/ /\ ppc = "update_success"
          /\ body_corrections = NoCorrections
          /\ expense_row \in { stored \in StoredRows : ~IsNone(stored.expense_date) }
          /\ \E entries \in AgentCorrections :
                presult = [corrections |-> entries, qbo_purchase_id |-> Some(1),
                           success |-> TRUE]

\* process_human_approved, lines 141-148: fetch the expense
HumanGetExpense ==
    /\ ppc = "human_approved"
    /\ invoked' = Append(invoked, "supabase.get_expense")
    /\ \E found \in BOOLEAN :
        IF found
        THEN /\ expense_obj' = [amount |-> expense_row.amount,
                                expense_date |-> expense_row.expense_date]
             /\ ppc' = "apply_corrections"
        ELSE /\ expense_obj' = expense_obj
             /\ ppc' = "returned"
    /\ UNCHANGED <<body_corrections, expense_row, presult, qbo_purchase>>

\* lines 150-171: a Correction and an assignment for each correction whose
\* value is true in Python's sense; strptime raising ends the call in the
\* except block (304-307) with the Correction already appended
ApplyCorrections ==
    /\ ppc = "apply_corrections"
    /\ LET amount_given == Truthy(body_corrections.amount)
           date_given == Truthy(body_corrections.expense_date)
           with_amount ==
               IF amount_given
               THEN AddCorrection(presult.corrections,
                                  Correction("amount", expense_obj.amount,
                                             body_corrections.amount, "human"))
               ELSE presult.corrections
           with_date ==
               IF date_given
               THEN AddCorrection(with_amount,
                                  Correction("expense_date",
                                             IF IsNone(expense_obj.expense_date) THEN None
                                             ELSE Some(Isoformat(Val(expense_obj.expense_date))),
                                             body_corrections.expense_date, "human"))
               ELSE with_amount
           parsed == IF date_given THEN Strptime(Val(body_corrections.expense_date)) ELSE None
       IN  /\ presult' = [presult EXCEPT !.corrections = with_date]
           /\ expense_obj' =
                  [amount |-> IF amount_given THEN body_corrections.amount ELSE expense_obj.amount,
                   expense_date |-> IF date_given /\ ~IsNone(parsed) THEN parsed
                                    ELSE expense_obj.expense_date]
           /\ ppc' = IF date_given /\ IsNone(parsed) THEN "returned"
                     ELSE "get_bank_transaction"
    /\ UNCHANGED <<body_corrections, expense_row, qbo_purchase, invoked>>

\* lines 173-181: fetch the transaction the human selected
GetBankTransaction ==
    /\ ppc = "get_bank_transaction"
    /\ invoked' = Append(invoked, "supabase.get_bank_transaction")
    /\ \E found \in BOOLEAN : ppc' = IF found THEN "create_purchase" ELSE "returned"
    /\ UNCHANGED <<body_corrections, expense_row, expense_obj, presult, qbo_purchase>>

\* lines 183-224: the state comes from the request (_normalize_state), the
\* vendor and the account are looked up, the Purchase is created from the
\* Expense object; a call that raises ends in the except block
CreatePurchase ==
    /\ ppc = "create_purchase"
    /\ \E ok \in BOOLEAN :
        /\ invoked' = invoked \o <<"qbo.get_or_create_vendor",
                                  "supabase.get_qbo_account_for_category",
                                  "qbo.create_purchase">>
        /\ qbo_purchase' =
               IF ok
               THEN Some([amount |-> expense_obj.amount,
                          txn_date |-> IF IsNone(expense_obj.expense_date)
                                       THEN 20261104
                                       ELSE Isoformat(Val(expense_obj.expense_date))])
               ELSE None
        /\ presult' = IF ok THEN [presult EXCEPT !.qbo_purchase_id = Some(1)] ELSE presult
        /\ ppc' = IF ok THEN "update_expense" ELSE "returned"
    /\ UNCHANGED <<body_corrections, expense_row, expense_obj>>

\* lines 226-302: the receipt upload and the Monday subitem (failures
\* swallowed, no field of the row involved), then update_data is written
\* to the expense and the transaction is marked matched
HumanPersist ==
    /\ ppc = "update_expense"
    /\ \E ok \in BOOLEAN :
        /\ expense_row' =
               IF ok
               THEN ApplyUpdate(expense_row,
                                HumanUpdateData([status |-> "posted"], presult.corrections))
               ELSE expense_row
        /\ invoked' = invoked \o (IF ok THEN <<"supabase.update_expense",
                                               "supabase.update_bank_transaction">>
                                  ELSE <<"supabase.update_expense">>)
        /\ presult' = [presult EXCEPT !.success = ok]
    /\ ppc' = "returned"
    /\ UNCHANGED <<body_corrections, expense_obj, qbo_purchase>>

\* _update_expense_success, process_expense/handler.py lines 191-230
UpdateExpenseSuccess ==
    /\ ppc = "update_success"
    /\ \E ok \in BOOLEAN :
        /\ expense_row' =
               IF ok
               THEN ApplyUpdate(expense_row,
                                AgentUpdateData([status |-> "posted"], presult.corrections))
               ELSE expense_row
        /\ invoked' = invoked \o (IF ok THEN <<"supabase.update_expense",
                                               "supabase.update_bank_transaction">>
                                  ELSE <<"supabase.update_expense">>)
    /\ ppc' = "returned"
    /\ UNCHANGED <<body_corrections, expense_obj, presult, qbo_purchase>>

PostingNext ==
    \/ HumanGetExpense /\ UNCHANGED <<tokenVars, agentVars, handlerVars, recoveryVars, toolVars>>
    \/ ApplyCorrections /\ UNCHANGED <<tokenVars, agentVars, handlerVars, recoveryVars, toolVars>>
    \/ GetBankTransaction /\ UNCHANGED <<tokenVars, agentVars, handlerVars, recoveryVars, toolVars>>
    \/ CreatePurchase /\ UNCHANGED <<tokenVars, agentVars, handlerVars, recoveryVars, toolVars>>
    \/ HumanPersist /\ UNCHANGED <<tokenVars, agentVars, handlerVars, recoveryVars, toolVars>>
    \/ UpdateExpenseSuccess /\ UNCHANGED <<tokenVars, agentVars, handlerVars, recoveryVars, toolVars>>

(***************************************************************************)
(* Claims about the token manager                                          *)
(***************************************************************************)

\* The committed conditional writes whose writer had read the item with
\* access token a.
CommitsFrom(a) == { e \in writes : e.conditional /\ e.read = a }

\* C1: when several workers read the same expired item at version v, exactly
\* one of their conditional writes commits, and it stores v + 1: one committed
\* increment for that refresh, not one per worker.
C1_OneCommitPerRefresh ==
    /\ \A a \in 1..MaxEndpointCalls : Cardinality(CommitsFrom(a)) <= 1
    /\ \A e \in writes : e.conditional => e.version = e.expected + 1

\* C2: no refresh credential taken from the shared item is presented to the
\* token endpoint more than once, whichever workers present it.
C2_CredentialPresentedOnce ==
    \A r \in 1..MaxEndpointCalls : presented[r] <= 1

C4_VersionStepsByOne ==
    /\ \A e \in writes : e.version = e.before + 1
    /\ \A e1, e2 \in writes : e1.version = e2.version => e1 = e2

\* C5: an invocation that went into a refresh never ends in
\* TokenRefreshError because another worker spent the credential first.
C5_RefreshConflictNotFatal ==
    \A w \in Workers : calls[w].refreshes > 0 => ret[w].kind # "TokenRefreshError"

C7_FreshTokenReturnedUntouched ==
    [][\A w \in Workers :
          ( /\ tpc[w] = "check" /\ tpc'[w] # "check"
            /\ ~force_refresh[w]
            /\ now < Val(token_data[w]).access_token_expires_at - TOKEN_BUFFER_SECONDS )
          => ( /\ tpc'[w] = "done"
               /\ ret'[w] = Returned(Val(token_data[w]).access_token)
               /\ table' = table
               /\ presented' = presented
               /\ issued' = issued
               /\ calls'[w] = calls[w] )]_vars

\* A first, unforced read of an existing fresh item came back with its token.
C7_Witness ==
    \E w \in Workers :
        /\ tpc[w] = "done" /\ calls[w].reads = 1 /\ calls[w].refreshes = 0
        /\ ~IsNone(token_data[w])
        /\ ret[w] = Returned(Val(token_data[w]).access_token)

(***************************************************************************)
(* Claims about the agent loop                                             *)
(***************************************************************************)

\* C8: every run ends, and by then the service was called at most 15 times.
C8_RunEndsWithinCap ==
    /\ [](llm.calls <= MAX_ITERATIONS)
    /\ <>(apc = "returned")

\* A run used all 15 service calls and returned.
C8_Witness == apc = "returned" /\ llm.calls = MAX_ITERATIONS

\* C9: a run whose 15 service calls were all answered with operation
\* requests returns flagged, max_iterations_exceeded, success = false.
C9_CapExceededFlagged ==
    (apc = "returned" /\ llm.toolUseAnswers = MAX_ITERATIONS)
    => /\ result.decision = "flagged"
       /\ result.flag_reason = "max_iterations_exceeded"
       /\ result.success = FALSE

\* A run returned after 15 operation requests.
C9_Witness == apc = "returned" /\ llm.toolUseAnswers = MAX_ITERATIONS

\* C10: a service error at any iteration ends the loop at once (no later
\* service call, no later dispatch) and the run returns flagged, api_error.
C10_ApiErrorFlagged ==
    (apc = "returned" /\ llm.apiErrorAt > 0)
    => /\ llm.calls = llm.apiErrorAt
       /\ llm.dispatched = llm.dispatchedAtApiError
       /\ result.decision = "flagged"
       /\ result.flag_reason = "api_error"

\* s is an initial segment of t
IsPrefix(s, t) == Len(s) <= Len(t) /\ SubSeq(t, 1, Len(s)) = s

\* C11: when the service signals normal completion, at any of the 15
\* iterations, the run ends there and returns the decision the closing text
\* stands for: auto_post, needs_review or flagged by keyword, otherwise
\* auto_post if the run created a purchase and needs_review if not.
C11_EndTurnDecisionReturned ==
    (apc = "returned" /\ llm.endTurnAt > 0)
    => LET text == llm.finalText
           derived == IF text.posted THEN "auto_post"
                      ELSE IF text.flag /\ text.review THEN "needs_review"
                      ELSE IF text.error THEN "flagged"
                      ELSE IF llm.purchaseAtEndTurn # 0 THEN "auto_post"
                      ELSE "needs_review"
       IN  /\ llm.calls = llm.endTurnAt
           /\ llm.parsedDecision = derived
           /\ result.decision = derived

\* C12: a dispatched operation that raises is recorded as a ToolCall with
\* success = false and the error message, its {error: message} result is
\* handed back in the conversation, and the loop goes on to the next service
\* call unless that was the 15th.
C12_FailedOperationNotFatal ==
    [][(apc = "loop" /\ Len(messages') = Len(messages) + 2)
       => LET blocks == ToolUseBlocks(messages'[Len(messages') - 1].content)
              results == messages'[Len(messages')].content
              base == Len(result.tool_calls)
          IN  \A i \in 1..Len(blocks) :
                  (blocks[i].outcome = "raise" \/ blocks[i].name \notin ToolsMap)
                  => /\ result'.tool_calls[base + i].success = FALSE
                     /\ result'.tool_calls[base + i].error_message = ErrorText(blocks[i])
                     /\ result'.tool_calls[base + i].error_message # "None"
                     /\ results[i].content =
                            JsonDumps([success |-> "absent", error |-> ErrorText(blocks[i])])
                     /\ apc' = IF llm'.calls < MAX_ITERATIONS THEN "loop" ELSE "after_loop"
      ]_vars

\* The first dispatched operation failed and the service was called again.
C12_Witness ==
    /\ Len(result.tool_calls) >= 1
    /\ result.tool_calls[1].success = FALSE
    /\ llm.calls >= 2

\* C13: within a run the ToolCall list grows by one entry per dispatched
\* operation, in dispatch order, and neither the ToolCall list nor the
\* Correction list ever loses or changes an entry it holds.
C13_AuditListsAppendOnly ==
    [][apc # "idle"
       => /\ IsPrefix(result.tool_calls, result'.tool_calls)
          /\ IsPrefix(result.corrections, result'.corrections)
          /\ IF Len(messages') = Len(messages) + 2
             THEN LET blocks == ToolUseBlocks(messages'[Len(messages') - 1].content)
                      base == Len(result.tool_calls)
                  IN  /\ Len(result'.tool_calls) = base + Len(blocks)
                      /\ \A i \in 1..Len(blocks) :
                             result'.tool_calls[base + i].tool_name = blocks[i].name
             ELSE result'.tool_calls = result.tool_calls
      ]_vars

\* A run holds three ToolCalls and a Correction.
C13_Witness ==
    /\ Len(result.tool_calls) >= 3
    /\ Len(result.corrections) >= 1

\* C14: whenever the service is about to be called again, the conversation
\* ends with the last operation-request turn and one result turn holding one
\* result per requested operation, in request order and carrying its request's
\* id; and no step changes or removes a turn the conversation already holds.
C14_ResultsPairedWithRequests ==
    /\ []((apc = "loop" /\ llm.calls >= 1)
          => /\ Len(messages) = 1 + 2 * llm.calls
             /\ LET request == messages[Len(messages) - 1]
                    answer == messages[Len(messages)]
                    blocks == ToolUseBlocks(request.content)
                IN  /\ request.role = "assistant"
                    /\ answer.role = "user"
                    /\ Len(answer.content) = Len(blocks)
                    /\ \A i \in 1..Len(blocks) :
                           /\ answer.content[i].type = "tool_result"
                           /\ answer.content[i].tool_use_id = blocks[i].id)
    /\ [][apc # "idle" => IsPrefix(messages, messages')]_vars

\* The service is about to be called again after an answer whose two
\* requests were numbered out of order.
C14_Witness ==
    /\ apc = "loop" /\ llm.calls >= 2
    /\ \E k \in 1..Len(messages) :
           /\ messages[k].role = "assistant"
           /\ messages[k].content[1].id = 2

\* C15: whenever the run creates a purchase with create_qbo_purchase,
\* lookup_qbo_expense_account was executed earlier in the same run.
C15_LookupBeforePurchase ==
    \A i \in 1..Len(result.tool_calls) :
        (result.tool_calls[i].tool_name = "create_qbo_purchase"
         /\ result.tool_calls[i].output.success = "true")
        => \E j \in 1..(i - 1) :
               result.tool_calls[j].tool_name = "lookup_qbo_expense_account"

\* C16: a request naming an operation outside the ten-entry registry raises
\* at dispatch: it is recorded as a failed ToolCall with the dispatcher's
\* error, and an answer made of such requests only leaves every other result
\* field, the expense row and the ledger as they were.
C16_UnknownOperationFailsFast ==
    [][(apc = "loop" /\ Len(messages') = Len(messages) + 2)
       => LET blocks == ToolUseBlocks(messages'[Len(messages') - 1].content)
              base == Len(result.tool_calls)
          IN  /\ \A i \in 1..Len(blocks) :
                     blocks[i].name \notin ToolsMap
                     => /\ result'.tool_calls[base + i].success = FALSE
                        /\ result'.tool_calls[base + i].error_message = "Unknown tool"
              /\ (\A i \in 1..Len(blocks) : blocks[i].name \notin ToolsMap)
                 => /\ [result' EXCEPT !.tool_calls = result.tool_calls,
                                       !.iteration_count = result.iteration_count]
                       = result
                    /\ agent_expense_status' = agent_expense_status
                    /\ agent_qbo_purchases' = agent_qbo_purchases
      ]_vars

\* An unknown operation was requested after the run had flagged the expense.
C16_Witness ==
    /\ Len(result.tool_calls) >= 2
    /\ result.tool_calls[Len(result.tool_calls)].tool_name = "no_such_tool"
    /\ agent_expense_status = "flagged"

(***************************************************************************)
(* Claims about the request handlers                                       *)
(***************************************************************************)

\* The answer of the duplicate check that ends the request at once.
ShortCircuits(r) ==
    /\ hpc'[r] = "done"
    /\ hh'[r].response = "already_processed"
    /\ expenses' = expenses
    /\ bank_transactions' = bank_transactions

\* C17 as stated: a request that arrives after the idempotency record of its
\* (expense_id, retry_count) pair was written returns the already-processed
\* response from the duplicate check: it fetches nothing, starts no run and
\* changes no expense and no bank transaction.
C17_ReplayShortCircuits ==
    [][\A r \in Requests :
          (hpc[r] = "duplicate_check" /\ hpc'[r] # "duplicate_check"
           /\ hh[r].afterRecord)
          => ShortCircuits(r)]_vars

\* C17 as amended: a request short-circuits exactly when its lookup goes
\* through and finds the record still stored; when the lookup raises, or the
\* record has expired (24 hour TTL), it goes on to fetch and process the
\* expense again.
C17_FoundRecordShortCircuits ==
    [][\A r \in Requests :
          (hpc[r] = "duplicate_check" /\ hpc'[r] # "duplicate_check")
          => IF faults' = faults
                /\ idempotency_table[GenerateIdempotencyKey(event[r].expense_id,
                                                            event[r].retry_count)]
                   = "stored"
             THEN ShortCircuits(r)
             ELSE hpc'[r] = "get_expense"]_vars

\* The second request was a replay and got the already-processed response.
C17_Witness ==
    /\ hpc["r2"] = "done"
    /\ hh["r2"].response = "already_processed"

\* C18: every bank transaction is held as the match of at most one expense
\* and is written to status matched at most once.
C18_TransactionMatchedOnce ==
    \A b \in BankTxns :
        /\ Cardinality({ e \in Expenses : expenses[e].bank_transaction_id = b }) <= 1
        /\ matched_writes[b] <= 1

\* C19: in the standard path an expense's status only moves from pending to
\* processing and from processing to posted, flagged, error or duplicate.
C19_StatusPath ==
    [][\A e \in Expenses :
          expenses'[e].status # expenses[e].status
          => \/ expenses[e].status = "pending" /\ expenses'[e].status = "processing"
             \/ expenses[e].status = "processing"
                /\ expenses'[e].status \in TerminalStatuses]_vars

\* a request that set its expense to processing returns at this step
ReturnsAfterProcessing(r) ==
    hpc[r] = "record_idempotency" /\ hpc'[r] = "done" /\ hh[r].setProcessing

ForReceiptlessExpense(r) ==
    /\ event[r].expense_id \in Expenses
    /\ ~expenses[event[r].expense_id].receipt_storage_path

\* C21: a request for an expense without a receipt reference never reaches
\* the write of status processing nor the agent run, keeps no bank match and
\* no purchase in its result, and such an expense is never in processing nor
\* linked to a bank transaction.
C21_HardFailBeforeEngine ==
    /\ \A r \in Requests :
          ForReceiptlessExpense(r)
          => /\ hpc[r] \in {"duplicate_check", "get_expense", "receipt_not_fetched",
                            "except", "record_idempotency"}
             /\ ~hh[r].setProcessing
             /\ hh[r].run = "none"
             /\ hresult[r].bank_transaction_id = "None"
             /\ hresult[r].qbo_purchase_id = 0
    /\ \A e \in Expenses :
          ~expenses[e].receipt_storage_path
          => /\ expenses[e].status # "processing"
             /\ expenses[e].bank_transaction_id = "None"
             /\ \A b \in BankTxns : bank_transactions[b].matched_expense_id # e

\* The receipt guard has raised for a request: it is in the except branch
\* with flag_reason receipt_not_fetched.
C21_Witness ==
    \E r \in Requests :
        /\ ForReceiptlessExpense(r)
        /\ hpc[r] = "except"
        /\ hresult[r].flag_reason = "receipt_not_fetched"

\* C22: when a request for an expense without a receipt reference returns,
\* all its database calls having gone through, the stored status of the
\* expense is error.
C22_RejectionPersistsError ==
    [][\A r \in Requests :
          /\ ForReceiptlessExpense(r)
          /\ hpc[r] = "record_idempotency"
          /\ hpc'[r] = "done"
          /\ ~hh[r].failedCalls
          => expenses'[event[r].expense_id].status = "error"]_vars

\* this step is a turn of recover_stuck's loop whose update went through
RecoveryWrites ==
    rpc = "loop" /\ stuck_expenses' # stuck_expenses /\ faults' = faults

\* C23: every update recover_stuck makes sets the stuck expense to pending
\* with processing_attempts one higher when processing_attempts < 3 and to
\* flagged otherwise; recovery resets an expense to pending at most 3 times,
\* and never again once it has flagged it.
C23_RecoveryCapped ==
    /\ [][RecoveryWrites
          => LET e == Head(stuck_expenses).id
             IN  IF expenses[e].processing_attempts < 3
                 THEN /\ expenses'[e].status = "pending"
                      /\ expenses'[e].processing_attempts =
                             expenses[e].processing_attempts + 1
                 ELSE /\ expenses'[e].status = "flagged"
                      /\ expenses'[e].processing_attempts =
                             expenses[e].processing_attempts]_vars
    /\ [][\A e \in Expenses : resets'[e] <= 3]_vars
    /\ [][\A e \in Expenses : recovery_flagged[e] => resets'[e] = resets[e]]_vars

\* An expense was reset three times, got stuck a fourth time and was flagged
\* by recovery.
C23_Witness ==
    \E e \in Expenses :
        /\ resets[e] = 3
        /\ recovery_flagged[e]
        /\ expenses[e].status = "flagged"
        /\ expenses[e].processing_attempts = 3

(***************************************************************************)
(* Claims about the bank matcher and the receipt comparison                *)
(***************************************************************************)
\* match_bank_transaction was called with an amount and a well-formed date
\* and has returned
MatchReturned ==
    /\ mpc = "matched"
    /\ match_args.amount # 0
    /\ ~IsNone(match_args.date_string)
    /\ IsValidDate(Val(match_args.date_string))
GivenDate == Val(match_args.date_string)
SwappedDate == Date(GivenDate.year, GivenDate.day, GivenDate.month)

\* the rows the query around date d returns: unmatched, of the source, at
\* most date_tolerance_days away
InWindow(d) ==
    { i \in 1..Len(bank_rows) :
        /\ bank_rows[i].status = "unmatched"
        /\ bank_rows[i].source = match_args.source
        /\ DaysApart(bank_rows[i].transaction_date, d) <= date_tolerance_days }
\* how matches_expense scores row i against the expense dated d
Scored(i, d) ==
    MatchesExpense(bank_rows[i], match_args.amount, d, match_args.merchant_name,
                   amount_tolerance, date_tolerance_days)
DirectMatches == { i \in InWindow(GivenDate) : Scored(i, GivenDate).is_match }

\* C24: when some candidate of the direct query scores as a match, the
\* transaction returned is one of highest score, and the first of these in
\* the list.
C24_FirstHighestReturned ==
    MatchReturned /\ DirectMatches # {}
    => /\ match_out.found
       /\ match_out.transaction \in DirectMatches
       /\ match_out.confidence = Scored(match_out.transaction, GivenDate).score
       /\ \A i \in DirectMatches :
             /\ Scored(i, GivenDate).score <= match_out.confidence
             /\ Scored(i, GivenDate).score = match_out.confidence
                => match_out.transaction <= i

\* Two candidates tie on the highest score and the call has returned the
\* first.
C24_Witness ==
    /\ MatchReturned
    /\ match_out.found
    /\ \E i, j \in DirectMatches :
          /\ i < j
          /\ Scored(i, GivenDate).score = Scored(j, GivenDate).score
          /\ match_out.transaction = i


\* the place of a match tier in the order as stated and in the order as
\* amended (the higher, the better)
StatedRank(match_type) ==
    IF match_type = "exact" THEN 5
    ELSE IF match_type = "amount_date_match" THEN 4
    ELSE IF match_type = "amount_merchant_match" THEN 3
    ELSE IF match_type = "amount_only_match" THEN 2
    ELSE 1
AmendedRank(match_type) ==
    IF match_type = "exact" THEN 5
    ELSE IF match_type = "amount_date_match" THEN 4
    ELSE IF match_type = "amount_merchant_match" THEN 3
    ELSE IF match_type = "restaurant_with_tip" THEN 2
    ELSE 1

\* C25 as stated: of two transactions matches_expense accepts, the one in the
\* higher tier of exact, amount+date, amount+merchant, amount-only, tip has
\* a confidence at least that of the other.
C25_TiersOrderedTipLast ==
    mpc = "scored"
    => \A i, j \in DOMAIN scores :
          /\ scores[i].is_match /\ scores[j].is_match
          /\ StatedRank(scores[i].match_type) >= StatedRank(scores[j].match_type)
          => scores[i].score >= scores[j].score

\* C25 as amended: the same for the order exact, amount+date,
\* amount+merchant, tip, amount-only.
C25_TiersOrderedTipAboveAmountOnly ==
    mpc = "scored"
    => \A i, j \in DOMAIN scores :
          /\ scores[i].is_match /\ scores[j].is_match
          /\ AmendedRank(scores[i].match_type) >= AmendedRank(scores[j].match_type)
          => scores[i].score >= scores[j].score

\* matches_expense was called on a table holding a transaction it takes as a
\* tip and one that matches by amount only.
C25_Witness ==
    /\ mpc = "scored"
    /\ \E i, j \in DOMAIN scores :
          /\ scores[i].match_type = "restaurant_with_tip"
          /\ scores[j].match_type = "amount_only_match"


\* the unmatched transactions of the source whose amount and date are those
\* of the expense
EqualCandidates ==
    { i \in InWindow(GivenDate) :
        /\ bank_rows[i].amount = match_args.amount
        /\ bank_rows[i].transaction_date = GivenDate }
\* a word of the merchant name given occurs in the description of row i
SharesWord(i) == match_args.merchant_name \cap bank_rows[i].description # {}

SecondQueryMade == Len(match_out.queries) = 2 /\ match_out.queries[2] = SwappedDate
\* the day of the given date is at most 12 and differs from its month
DayCouldBeMonth == GivenDate.day <= 12 /\ GivenDate.day # GivenDate.month

\* C27: when no candidate of the direct query matches, the query around the
\* swapped date is made exactly when the day is at most 12 and differs from
\* the month, and the swapped date is then a valid calendar date.
C27_InversionTriedIffDayCouldBeMonth ==
    MatchReturned /\ DirectMatches = {}
    => /\ SecondQueryMade <=> DayCouldBeMonth
       /\ SecondQueryMade => IsValidDate(SwappedDate)

\* C28: when no candidate of the direct query matches, the day is at most 12
\* and differs from the month, and an unmatched transaction of the source
\* within the amount tolerance lies in the window around the swapped date,
\* the match is found, its type ends in _date_corrected, and the one
\* Correction appended is on expense_date, from the given to the swapped date.
C28_InversionMatchEmitsCorrection ==
    /\ MatchReturned /\ DirectMatches = {} /\ DayCouldBeMonth
    /\ \E i \in InWindow(SwappedDate) :
          Abs(bank_rows[i].amount - match_args.amount) < amount_tolerance
    => /\ match_out.found
       /\ match_out.suffix = "_date_corrected"
       /\ match_out.corrections = <<[field_name |-> "expense_date",
                                     original_value |-> GivenDate,
                                     corrected_value |-> SwappedDate]>>


\* amount / expense lies in [lo/100, hi/100], in exact arithmetic
RatioWithin(amount, expense, lo, hi) ==
    lo * expense <= 100 * amount /\ 100 * amount <= hi * expense
\* the match returned is the tip fallback's: a tip with a Correction on amount
FallbackTip ==
    /\ match_out.found
    /\ match_out.match_type = "restaurant_with_tip"
    /\ match_out.corrections # <<>>
\* both amounts of the receipt comparison are present, not zero, and differ
\* by a cent or more
ReceiptAmountsDiffer ==
    /\ Truthy(receipt_args.extracted.amount) /\ Truthy(receipt_args.expected_amount)
    /\ Abs(Val(receipt_args.extracted.amount) - Val(receipt_args.expected_amount)) >= 1

\* C29: an amount is taken as a tip only when its ratio to the expense
\* amount lies in the closed interval, and is taken as one whenever it does
\* (date condition met, amounts not within tolerance of each other):
\* [1.18, 1.25] in matches_expense, [1.15, 1.25] in the matcher's fallback,
\* [1.15, 1.25] in the receipt comparison.
C29_TipExactlyInsideInterval ==
    /\ mpc = "scored"
       => \A i \in DOMAIN scores :
             LET txn == bank_rows[i]
                 inside == RatioWithin(txn.amount, match_args.amount, 118, 125)
             IN  /\ scores[i].match_type = "restaurant_with_tip" => inside
                 /\ /\ inside
                    /\ Abs(txn.amount - match_args.amount) > amount_tolerance
                    /\ DaysApart(txn.transaction_date, GivenDate) <= date_tolerance_days
                    => scores[i].match_type = "restaurant_with_tip"
    /\ MatchReturned
       => /\ FallbackTip
             => RatioWithin(bank_rows[match_out.transaction].amount,
                            match_args.amount, 115, 125)
          /\ /\ DirectMatches = {}
             /\ match_out.suffix = ""
             /\ \E i \in InWindow(GivenDate) :
                   RatioWithin(bank_rows[i].amount, match_args.amount, 115, 125)
             => match_out.found /\ match_out.match_type = "restaurant_with_tip"
    /\ mpc = "compared" /\ ReceiptAmountsDiffer
       => (validation.kind.amount = "tip"
           <=> RatioWithin(Val(receipt_args.extracted.amount),
                           Val(receipt_args.expected_amount), 115, 125))


\* the receipt amount differs from the expected one by a cent or more
\* without being 15 to 25 % above it
ReceiptAmountOff ==
    /\ ReceiptAmountsDiffer
    /\ ~RatioWithin(Val(receipt_args.extracted.amount),
                    Val(receipt_args.expected_amount), 115, 125)
\* the receipt date is more than 3 days from the expected one without being
\* that date with day and month swapped
ReceiptDateOff ==
    /\ ~IsNone(receipt_args.extracted.date) /\ ~IsNone(receipt_args.expected_date)
    /\ LET receipt_date == Val(receipt_args.extracted.date)
           expected_date == Val(receipt_args.expected_date)
       IN  /\ DaysApart(receipt_date, expected_date) > 3
           /\ receipt_date # Date(expected_date.year, expected_date.day,
                                  expected_date.month)
\* every amount given is not zero and every date given is a calendar date
ReceiptInputsWellFormed ==
    /\ receipt_args.extracted.amount # Some(0)
    /\ IsNone(receipt_args.extracted.date)
       \/ IsValidDate(Val(receipt_args.extracted.date))

\* C30: the comparison returns validated = false exactly when the receipt
\* amount differs by 0.01 or more without being 15-25 % above the expected
\* one, or the receipt date is more than 3 days off without being the exact
\* day/month swap; so a merchant mismatch, a drift of at most 3 days or an
\* exact swap alone leave validated true.
C30_InvalidExactlyOnAmountOrDate ==
    mpc = "compared" /\ ReceiptInputsWellFormed
    => (~validation.validated <=> ReceiptAmountOff \/ ReceiptDateOff)


\* the tiers of confidence 70 and more that rest on the amount
AmountTiers ==
    {"exact", "amount_date_match", "amount_merchant_match", "amount_only_match"}
\* the candidates of the query around date d that match in one of them
TierCandidates(d) == { i \in InWindow(d) : Scored(i, d).match_type \in AmountTiers }

\* C34: when the transaction returned qualifies by its tip ratio only, no
\* candidate of the list it was taken from (nor of the direct list, when it
\* comes from the query around the swapped date) matches in a tier of
\* confidence 70 or more.
C34_TipNeverOverAmountTier ==
    MatchReturned /\ match_out.found /\ match_out.match_type = "restaurant_with_tip"
    => /\ TierCandidates(GivenDate) = {}
       /\ match_out.suffix = "_date_corrected" => TierCandidates(SwappedDate) = {}

\* The first candidate qualifies by tip ratio only, a later one matches in
\* an amount tier, and the later one was returned.
C34_Witness ==
    /\ MatchReturned
    /\ match_out.found
    /\ \E i, j \in InWindow(GivenDate) :
          /\ i < j
          /\ Scored(i, GivenDate).match_type = "restaurant_with_tip"
          /\ j \in TierCandidates(GivenDate)
          /\ match_out.transaction = j
          /\ match_out.match_type \in AmountTiers


\* C35: the idempotency record of a pair (expense, retry count) is written
\* only by the step in which a request for that pair returns, after its
\* processing; until then a second request for the pair finds no record.
\* (That two such requests do run the engine side by side is the witness.)
C35_RecordWrittenOnReturnOnly ==
    [][\A k \in IdempotencyKeys :
          idempotency_table'[k] = "stored" /\ idempotency_table[k] # "stored"
          => \E r \in Requests :
                /\ hpc[r] = "record_idempotency"
                /\ hpc'[r] = "done"
                /\ k = <<event[r].expense_id, event[r].retry_count>>]_vars

\* Two first-attempt requests for the same expense and retry count have both
\* passed the duplicate check, neither having met a failing call, and both
\* are in the engine; the record of their pair is still absent.
C35_Witness ==
    /\ hpc["r1"] = "agent" /\ hpc["r2"] = "agent"
    /\ event["r1"].expense_id = event["r2"].expense_id
    /\ event["r1"].retry_count = 0 /\ event["r2"].retry_count = 0
    /\ ~hh["r1"].failedCalls /\ ~hh["r2"].failedCalls
    /\ ~hh["r1"].afterRecord /\ ~hh["r2"].afterRecord
    /\ idempotency_table[<<event["r1"].expense_id, 0>>] = "absent"


\* C36: a request writes status posted, and marks its bank transaction
\* matched, only when its result holds a ledger purchase id; and a result
\* with success = true has decision auto_post.
C36_PostedOnlyWithPurchase ==
    [][\A r \in Requests :
          /\ (/\ hpc[r] = "update"
              /\ hh'[r].lastStatus = "posted"
              /\ expenses'[event[r].expense_id].status = "posted"
              /\ faults' = faults)
             => hresult[r].qbo_purchase_id # 0
          /\ (hpc[r] = "update_bank_transaction" /\ bank_transactions' # bank_transactions)
             => hresult[r].qbo_purchase_id # 0
          /\ hresult'[r].success => hresult'[r].decision = "auto_post"]_vars


\* C37: no two requests are at once between their write of status
\* processing and their terminal status write for the same expense.
C37_OneRunPerExpense ==
    \A r, q \in Requests :
        /\ r # q
        /\ hh[r].setProcessing /\ hpc[r] \in {"agent", "update"}
        /\ hh[q].setProcessing /\ hpc[q] \in {"agent", "update"}
        => event[r].expense_id # event[q].expense_id

\* C38: the refresh credential stored in the shared record is the one most
\* recently issued: a worker whose conditional write is rejected (lines
\* 139-146) never drops a credential newer than the one that stays stored.
C38_NoNewerCredentialDiscarded ==
    [][\A w \in Workers :
          tpc[w] = "refresh_store" /\ tpc'[w] = RetryPosition
          => Val(table').refresh_token >= Val(new_tokens[w]).refresh_token]_vars

\* C39: every ToolCall of the audit trail whose recorded output is a failure
\* envelope (success false, or an error entry) is recorded with success =
\* false and an error message, and a ToolCall recorded with success = true
\* has an output that reports success.
C39_FailureEnvelopeRecordedAsFailure ==
    \A i \in 1..Len(result.tool_calls) :
        LET tc == result.tool_calls[i]
        IN  /\ (tc.output.success = "false" \/ tc.output.error # "absent")
               => ~tc.success /\ tc.error_message # "None"
            /\ tc.success => tc.output.success = "true"

\* C33: every failure response of the processing handler carries a decision
\* code, a confidence value and a human-readable reason: no invocation of
\* lambda_handler returns the bare {"error": message} body.
C33_FailureCarriesEnvelope ==
    [][\A r \in Requests :
          hpc[r] # "done" /\ hpc'[r] = "done" => hh'[r].response # "error"]_vars

\* C31: determine_state returns the first source that yields a jurisdiction,
\* tried in the order tag (expense not cost-of-sales), calendar event in the
\* date range, vendor rule, tag as fallback; with no tag, cost-of-sales and
\* an event in TX it answers monday_event with confidence 90; when no source
\* yields a jurisdiction it answers unresolved (no state, confidence 0).
C31_FirstYieldingSource ==
    mpc = "determined" =>
        LET tag_state == ExtractStateFromTag(state_args.zoho_state_tag)
            event_states ==
                IF IsNone(state_args.expense_date) \/ state_args.monday_raises THEN {}
                ELSE { state_args.events[i].state : i \in 1..Len(state_args.events) }
                         \ {None}
            vendor_rule == IF IsNone(state_args.vendor_name) THEN None
                           ELSE LookupVendorState(state_args)
            vendor_state == IF IsNone(vendor_rule) THEN None ELSE Val(vendor_rule).state
            source == IF ~state_args.is_cos /\ ~IsNone(tag_state) THEN "zoho_tag"
                      ELSE IF event_states # {} THEN "monday_event"
                      ELSE IF ~IsNone(vendor_state) THEN "vendor_rule"
                      ELSE IF ~IsNone(tag_state) THEN "zoho_tag_fallback"
                      ELSE "none"
        IN  /\ state_out.source = source
            /\ source \in {"zoho_tag", "zoho_tag_fallback"} => state_out.state = tag_state
            /\ source = "monday_event"
               => state_out.state \in event_states /\ state_out.confidence = 90
            /\ source = "vendor_rule" => state_out.state = vendor_state
            /\ source = "none"
               => IsNone(state_out.state) /\ state_out.confidence = 0 /\ ~state_out.success

(***************************************************************************)
(* Claims about posting with corrections                                   *)
(***************************************************************************)
\* C32: in the human-pre-approved path the given amount and date
\* corrections are applied before posting: the Purchase is created with the
\* corrected amount and the corrected date, one Correction is recorded per
\* corrected field, and neither match_bank_transaction nor determine_state
\* is called.
C32_CorrectionsAppliedBeforePosting ==
    ~IsNone(qbo_purchase) =>
        /\ ~IsNone(body_corrections.amount)
           => Val(qbo_purchase).amount = body_corrections.amount
        /\ ~IsNone(body_corrections.expense_date)
           => Some(Val(qbo_purchase).txn_date) = Strptime(Val(body_corrections.expense_date))
        /\ Len(presult.corrections) =
               Cardinality({ f \in {"amount", "expense_date"} :
                               ~IsNone(body_corrections[f]) })
        /\ \A i \in 1..Len(invoked) :
               invoked[i] \notin {"match_bank_transaction", "determine_state"}

\* C40: a run that ended with the expense posted and holds a Correction on
\* amount or on expense_date left the corrected value in that column and the
\* original value in original_amount / original_expense_date, in the agent
\* path and in the human-approved path.
C40_CorrectedValuesPersisted ==
    ppc = "returned" /\ expense_row.status = "posted" =>
        \A i \in 1..Len(presult.corrections) :
            LET correction == presult.corrections[i]
            IN  /\ correction.field_name = "amount"
                   => /\ expense_row.amount = correction.corrected_value
                      /\ expense_row.original_amount = correction.original_value
                /\ correction.field_name = "expense_date"
                   => /\ ~IsNone(expense_row.expense_date)
                      /\ Strptime(Val(expense_row.expense_date))
                            = Strptime(Val(correction.corrected_value))
                      /\ expense_row.original_expense_date = correction.original_value

(***************************************************************************)
(* Specifications                                                          *)
(***************************************************************************)
Init == TokenInit /\ AgentInit /\ HandlerInit /\ RecoveryInit /\ ToolsInit /\ PostingInit

\* Two workers share the credential record.
SpecToken == Init /\ [][TokenNextOf({"w1", "w2"})]_vars
\* Three workers share it.
SpecTokenThree == Init /\ [][TokenNextOf(Workers)]_vars
\* One run of the agent loop.
SpecAgent == Init /\ [][AgentNext]_vars
\* The same, when every call the run waits for comes back (all carry timeouts).
FairSpecAgent == Init /\ [][AgentNext]_vars /\ WF_vars(AgentNext)
\* Two process_expense requests side by side.
SpecProcessExpense == Init /\ [][ProcessExpenseNext(Requests)]_vars
\* One process_expense request and one human approval side by side.
SpecHandlers == Init /\ [][ProcessExpenseNext({"r1"}) \/ HumanApprovedNext]_vars
\* The same, when every call an invocation waits for comes back.
FairSpecHandlers ==
    /\ Init
    /\ [][ProcessExpenseNext({"r1"}) \/ HumanApprovedNext]_vars
    /\ WF_vars(ProcessExpenseNext({"r1"}) \/ HumanApprovedNext)
\* One process_expense request at a time, killed and delivered again any
\* number of times, and the scheduled recovery runs; one expense or none is
\* without its receipt.
InitRecovery ==
    /\ TokenInit /\ AgentInit /\ RecoveryInit /\ ToolsInit /\ PostingInit
    /\ \E with_receipt \in {{"e1"}, Expenses} : StoreInit(with_receipt)
SpecRecovery == InitRecovery /\ [][ProcessExpenseNext({"r1"}) \/ RecoverStuckNext]_vars
\* One call of match_bank_transaction, of matches_expense on each row of a
\* table, or of _compare_receipt_data, on any of the inputs.
InitTools ==
    TokenInit /\ AgentInit /\ HandlerInit /\ RecoveryInit /\ ToolsCalled /\ PostingInit
SpecTools == InitTools /\ [][ToolsNext]_vars
\* One call of process_human_approved, or of _update_expense_success.
InitPosting ==
    TokenInit /\ AgentInit /\ HandlerInit /\ RecoveryInit /\ ToolsInit /\ PostingCalled
SpecPosting == InitPosting /\ [][PostingNext]_vars

====
